---- MODULE Spec2Model ----
(***************************************************************************)
(* Item7 Food Truck: staff scheduling, user store and booking workflow.    *)
(*                                                                         *)
(* Text values (emails, names, passwords) are sequences of one-character   *)
(* strings, so that strip / lower / sanitisation are computed and not      *)
(* assumed.  A CSV file is a header (sequence of column names) and a       *)
(* sequence of positional rows, as csv.writer / csv.DictReader see it.     *)
(* A date text "YYYY-MM-DD" is the triple of its numeric fields; the text  *)
(* BadDateText stands for a text that does not have that shape.            *)
(* The data files exist and are readable and writable (initialize_csv_files*)
(* creates them at start-up).                                              *)
(***************************************************************************)
EXTENDS Integers, Sequences, FiniteSets, TLC

\* ------------------------------------------------------------------ bounds
MaxUsers == 2
MaxSched == 2
MaxOrders == 2
MaxCart == 2
MaxMenu == 4

\* ------------------------------------------------------- program constants
\* a time text is a sequence of symbols: the label and any blanks around it
TIME_SLOTS ==
  << << "09:00" >>, << "10:00" >>, << "11:00" >>, << "12:00" >>, << "13:00" >>,
     << "14:00" >>, << "15:00" >>, << "16:00" >>, << "17:00" >> >>

WORKING_DAYS_mon ==
  << "Monday", "Tuesday", "Wednesday", "Thursday", "Friday", "Saturday", "Sunday" >>

WORKING_DAYS ==
  << "Tuesday", "Wednesday", "Thursday", "Friday", "Saturday", "Sunday" >>

USERS_HEADER ==
  << "Email", "Password", "First_Name", "Last_Name", "Mobile_Number",
     "Address", "DOB", "Sex", "Role", "Verified" >>

SCHEDULES_HEADER ==
  << "Manager", "Date", "Time", "staff_Email", "staff_Name", "work_Time" >>

\* fieldnames the user update writes the file back with
UPDATE_FIELDNAMES ==
  << "Email", "Password", "First_Name", "Last_Name", "Mobile_Number",
     "Address", "DOB", "Sex", "Role" >>

\* ------------------------------------------------------------ text helpers
Range(s) == { s[i] : i \in 1..Len(s) }

IsSpace(c) == c \in { " ", "\n", "\r", "\t" }

RECURSIVE LStrip(_)
LStrip(s) == IF s # << >> /\ IsSpace(Head(s)) THEN LStrip(Tail(s)) ELSE s

RECURSIVE RStrip(_)
RStrip(s) ==
  IF s # << >> /\ IsSpace(s[Len(s)]) THEN RStrip(SubSeq(s, 1, Len(s) - 1)) ELSE s

\* str.strip()
Strip(s) == RStrip(LStrip(s))

UPPER ==
  << "A", "B", "C", "D", "E", "F", "G", "H", "I", "J", "K", "L", "M",
     "N", "O", "P", "Q", "R", "S", "T", "U", "V", "W", "X", "Y", "Z" >>

LOWER ==
  << "a", "b", "c", "d", "e", "f", "g", "h", "i", "j", "k", "l", "m",
     "n", "o", "p", "q", "r", "s", "t", "u", "v", "w", "x", "y", "z" >>

LowerOf == [ c \in Range(UPPER) |-> LOWER[CHOOSE i \in 1..26 : UPPER[i] = c] ]

LowerChar(c) == IF c \in DOMAIN LowerOf THEN LowerOf[c] ELSE c

\* a lower() that leaves the text as typed
Lower_as_typed(s) == s

\* str.lower()
Lower(s) == [ i \in 1..Len(s) |-> LowerChar(s[i]) ]

\* the value None of the program, distinct from every text
NoneV == << "<None>" >>

sanitize_for_csv(value) ==
  IF value = NoneV THEN << >>
  ELSE LET text == Strip(value)
       IN [ i \in 1..Len(text) |->
              IF text[i] \in { "\n", "\r" } THEN " " ELSE text[i] ]

sanitize_text(value) == IF value = NoneV THEN << >> ELSE Strip(value)

\* ------------------------------------------------------------- csv helpers
IndexOf(seq, x) == CHOOSE i \in 1..Len(seq) : seq[i] = x

\* csv.DictReader: one row as a dict keyed by the header; short rows give None
DictRow(header, row) ==
  [ c \in Range(header) |->
      IF IndexOf(header, c) <= Len(row) THEN row[IndexOf(header, c)] ELSE NoneV ]

\* dict.get(key, default)
Get(d, key, default) == IF key \in DOMAIN d THEN d[key] ELSE default

\* csv.DictWriter._dict_to_list: a key outside fieldnames raises ValueError
DictWriterRaises(fieldnames, d) == (DOMAIN d) \ Range(fieldnames) # { }

DictToList(fieldnames, d) ==
  [ i \in 1..Len(fieldnames) |->
      IF fieldnames[i] \in DOMAIN d /\ d[fieldnames[i]] # NoneV
      THEN d[fieldnames[i]] ELSE << >> ]

\* open(path, "w"); writeheader(); writerow(...) for each dict, stopping at the
\* first row that raises: what the file holds afterwards, and whether it raised
RECURSIVE WriteDictRows(_, _, _)
WriteDictRows(fieldnames, dicts, written) ==
  IF dicts = << >> THEN [ rows |-> written, raised |-> FALSE ]
  ELSE IF DictWriterRaises(fieldnames, Head(dicts))
       THEN [ rows |-> written, raised |-> TRUE ]
       ELSE WriteDictRows(fieldnames, Tail(dicts),
                          Append(written, DictToList(fieldnames, Head(dicts))))

\* ------------------------------------------------------------ date helpers
BadDateText == << 0, 0, 0 >>

IsLeap(y) == (y % 4 = 0) /\ ((y % 100 # 0) \/ (y % 400 = 0))

DaysInMonth(y, m) ==
  IF m = 2 THEN (IF IsLeap(y) THEN 29 ELSE 28)
  ELSE IF m \in { 4, 6, 9, 11 } THEN 30 ELSE 31

RECURSIVE DaysBeforeMonth(_, _)
DaysBeforeMonth(y, m) ==
  IF m = 1 THEN 0 ELSE DaysBeforeMonth(y, m - 1) + DaysInMonth(y, m - 1)

\* datetime.strptime(date_str, "%Y-%m-%d") raises ValueError
StrptimeFails(d) ==
  \/ d = BadDateText
  \/ d[1] < 1
  \/ d[2] \notin 1..12
  \/ d[3] < 1
  \/ d[3] > DaysInMonth(d[1], d[2])

ToOrdinal(d) ==
  LET y == d[1] - 1
  IN y * 365 + (y \div 4) - (y \div 100) + (y \div 400)
     + DaysBeforeMonth(d[1], d[2]) + d[3]

DAY_NAMES ==
  << "Monday", "Tuesday", "Wednesday", "Thursday", "Friday", "Saturday", "Sunday" >>

\* booking_date.strftime("%A")
DayName(d) == DAY_NAMES[((ToOrdinal(d) + 6) % 7) + 1]

\* --------------------------------------------------------- words and inputs
T_staff    == << "staff" >>
T_customer == << "customer" >>
T_YES      == << "YES" >>
T_NO       == << "NO" >>

E_a   == << "a", "@", "x", ".", "c" >>
E_A   == << "A", "@", "x", ".", "c" >>
E_spa == << " ", "a", "@", "x", ".", "c" >>
E_b   == << "b", "@", "x", ".", "c" >>
E_c   == << "c", "@", "x", ".", "c" >>
E_bad == << "b", "@", "x" >>

PW_good  == << "s", "e", "c", "r", "e", "t" >>
PW_short == << "p", "w" >>

\* ADMIN_EMAILS of the deployment (environment variable)
ADMIN_EMAILS == { E_a }

Contains(s, c) == \E i \in 1..Len(s) : s[i] = c

\* email.split("@")[1]: the text between the first and the second "@"
RECURSIVE UpTo(_, _)
UpTo(s, c) == IF s = << >> \/ Head(s) = c THEN << >> ELSE << Head(s) >> \o UpTo(Tail(s), c)

RECURSIVE After(_, _)
After(s, c) == IF s = << >> THEN << >> ELSE IF Head(s) = c THEN Tail(s) ELSE After(Tail(s), c)

SplitAt1(s) == UpTo(After(s, "@"), "@")

\* werkzeug.security: generate_password_hash / check_password_hash
generate_password_hash(password) == << "pbkdf2:" >> \o password

IsHashed(stored) == stored # << >> /\ Head(stored) \in { "pbkdf2:", "scrypt:" }

check_password_hash(stored, password) == Tail(stored) = password

\* ------------------------------------------------------------------- state
VARIABLES
  usersCsv,    \* data/users.csv: [header, rows]
  schedCsv,    \* data/schedules.csv: [header, rows]
  staff,       \* my_truck.staff
  schedules,   \* my_truck.schedules
  session,     \* the browser session (Flask session cookie)
  resp,        \* the last request and its response
  pc,          \* position of each in-flight booking request (interleaved runs)
  req,         \* arguments and locals of each in-flight booking request
  ordersCsv,   \* data/orders.csv: [header, rows]
  orders,      \* my_truck.orders
  menuCsv,     \* data/menu.csv: [header, rows]
  cart         \* session["cart"] of the browser session

\* what the menu, cart and order handlers work on
shopVars == << ordersCsv, orders, menuCsv, cart >>

vars == << usersCsv, schedCsv, staff, schedules, session, resp, pc, req, shopVars >>

\* ---------------------------------------------------------- the user store
UserDict(d) ==
  [ email    |-> d["Email"],
    password |-> d["Password"],
    first    |-> d["First_Name"],
    last     |-> d["Last_Name"],
    phone    |-> d["Mobile_Number"],
    address  |-> d["Address"],
    dob      |-> d["DOB"],
    sex      |-> d["Sex"],
    role     |-> Get(d, "Role", T_customer),
    verified |-> Get(d, "Verified", T_NO) ]

\* a start-up that recreates a store lacking columns instead of widening it
ensure_user_columns_recreating(csv) ==
  IF \A c \in { "Role", "Verified" } : c \in Range(csv.header) THEN csv
  ELSE [ header |-> USERS_HEADER, rows |-> << >> ]

\* _ensure_user_columns: widen the file when Role / Verified are missing
ensure_user_columns(csv) ==
  LET missing == SelectSeq(<< "Role", "Verified" >>,
                           LAMBDA c : c \notin Range(csv.header))
      new_fieldnames == csv.header \o missing
      widen(row) ==
        LET d == DictRow(csv.header, row)
        IN DictToList(new_fieldnames,
             [ c \in Range(new_fieldnames) |->
                 IF c \in DOMAIN d THEN d[c]
                 ELSE IF c = "Role" THEN T_customer ELSE T_NO ])
  IN IF missing = << >> THEN csv
     ELSE [ header |-> new_fieldnames,
            rows   |-> [ i \in 1..Len(csv.rows) |-> widen(csv.rows[i]) ] ]

\* the list load_staff_from_csv builds from the (widened) file c2
LoadedStaff(c2) ==
  [ csv   |-> c2,
    staff |-> [ i \in 1..Len(c2.rows) |-> UserDict(DictRow(c2.header, c2.rows[i])) ] ]

\* load_staff_from_csv: the file afterwards and the list it loads
load_staff_from_csv(csv) == LoadedStaff(ensure_user_columns(csv))

NoUser == [ email |-> NoneV, password |-> NoneV, first |-> NoneV, last |-> NoneV,
            phone |-> NoneV, address |-> NoneV, dob |-> NoneV, sex |-> NoneV,
            role |-> NoneV, verified |-> NoneV ]

\* the first user of the reloaded list ld among the positions hit
FirstHit(ld, hit) ==
  IF hit = { }
  THEN [ csv |-> ld.csv, staff |-> ld.staff, found |-> FALSE, user |-> NoUser ]
  ELSE [ csv |-> ld.csv, staff |-> ld.staff, found |-> TRUE,
         user |-> ld.staff[CHOOSE i \in hit : \A j \in hit : i <= j] ]

\* the loop of get_user_details over the reloaded list ld
MatchUser(ld, key) ==
  FirstHit(ld, { i \in 1..Len(ld.staff) : Lower(Strip(ld.staff[i].email)) = key })

\* get_user_details: reloads the store, first user whose email matches
\* ignoring case and surrounding whitespace
get_user_details(csv, staffNow, email) ==
  IF email = << >> \/ email = NoneV
  THEN [ csv |-> csv, staff |-> staffNow, found |-> FALSE, user |-> NoUser ]
  ELSE MatchUser(load_staff_from_csv(csv), Lower(Strip(email)))

\* add_staff_to_csv: appends one positional row; the email is stored lower-cased
add_staff_to_csv(csv, staffNow, email, password, first, last, phone, address, dob, sex, role, verified) ==
  LET c2 == IF "Role" \notin Range(csv.header) \/ "Verified" \notin Range(csv.header)
            THEN ensure_user_columns(csv) ELSE csv
      em == IF email = << >> THEN << >> ELSE Lower(Strip(email))
      row == << em, password, sanitize_for_csv(first), sanitize_for_csv(last),
                sanitize_for_csv(phone), sanitize_for_csv(address),
                sanitize_for_csv(dob), sanitize_for_csv(sex),
                sanitize_for_csv(role), sanitize_for_csv(verified) >>
  IN [ csv   |-> [ c2 EXCEPT !.rows = Append(@, row) ],
       staff |-> Append(staffNow,
                   [ email |-> em, password |-> password,
                     first |-> sanitize_for_csv(first), last |-> sanitize_for_csv(last),
                     phone |-> sanitize_for_csv(phone),
                     address |-> sanitize_for_csv(address),
                     dob |-> sanitize_for_csv(dob), sex |-> sanitize_for_csv(sex),
                     role |-> sanitize_for_csv(role),
                     verified |-> sanitize_for_csv(verified) ]) ]

FIELD_MAP ==
  [ password |-> "Password", first |-> "First_Name", last |-> "Last_Name",
    phone |-> "Mobile_Number", address |-> "Address", dob |-> "DOB",
    sex |-> "Sex", role |-> "Role" ]

\* the rows update_user_in_csv means to write: the matching rows updated
UpdatedDicts(csv, email, updated_fields) ==
  [ i \in 1..Len(csv.rows) |->
      LET d == DictRow(csv.header, csv.rows[i])
      IN IF d["Email"] = email
         THEN [ c \in (DOMAIN d) \cup { FIELD_MAP[k] : k \in
                         { k \in DOMAIN updated_fields : updated_fields[k] # NoneV } } |->
                  IF \E k \in DOMAIN updated_fields :
                       FIELD_MAP[k] = c /\ updated_fields[k] # NoneV
                  THEN sanitize_for_csv(updated_fields[
                         CHOOSE k \in DOMAIN updated_fields : FIELD_MAP[k] = c])
                  ELSE d[c] ]
         ELSE d ]

WithRole(d) ==
  IF "Role" \in DOMAIN d THEN d
  ELSE [ c \in (DOMAIN d) \cup { "Role" } |-> IF c = "Role" THEN T_staff ELSE d[c] ]

\* the end of update_user_in_csv, w being what the rewrite left in the file
\* and whether a row raised: on success the cache is refreshed
Rewritten(w, staffNow) ==
  IF w.raised
  THEN [ csv |-> [ header |-> UPDATE_FIELDNAMES, rows |-> w.rows ],
         staff |-> staffNow, ok |-> FALSE ]
  ELSE [ csv   |-> load_staff_from_csv([ header |-> UPDATE_FIELDNAMES, rows |-> w.rows ]).csv,
         staff |-> load_staff_from_csv([ header |-> UPDATE_FIELDNAMES, rows |-> w.rows ]).staff,
         ok    |-> TRUE ]

\* update_user_in_csv: open(path, "w") truncates, then header and rows are
\* written one by one; a row that raises leaves what was written so far
update_user_in_csv(csv, staffNow, email, updated_fields) ==
  IF \A i \in 1..Len(csv.rows) : DictRow(csv.header, csv.rows[i])["Email"] # email
  THEN [ csv |-> csv, staff |-> staffNow, ok |-> FALSE ]
  ELSE Rewritten(WriteDictRows(UPDATE_FIELDNAMES,
                               [ i \in 1..Len(csv.rows) |->
                                   WithRole(UpdatedDicts(csv, email, updated_fields)[i]) ],
                               << >>),
                 staffNow)

\* ----------------------------------------------------------------- session
NoSession == [ user_email |-> NoneV, user_name |-> NoneV, is_staff |-> FALSE,
               admin |-> NoneV ]

Response(op, email, date, time, msg, slots) ==
  [ op |-> op, email |-> email, date |-> date, time |-> time, msg |-> msg,
    slots |-> slots, form |-> << >>, total |-> 0 ]

NoResp == Response("none", << >>, BadDateText, << >>, "", << >>)

\* the store and the cache out of a lookup
Store(found) == [ csv |-> found.csv, staff |-> found.staff ]

\* inject_globals (context processor run by render_template): looks the
\* session user up, which reloads the user store
inject_globals(csv, staffNow, sess) ==
  IF sess.user_email # NoneV /\ sess.user_email # << >>
  THEN Store(get_user_details(csv, staffNow, sess.user_email))
  ELSE [ csv |-> csv, staff |-> staffNow ]

\* ------------------------------------------------------------ user handlers
\* what a handler leaves: the store, the cache and the message it flashes
Outcome(store, m) == [ csv |-> store.csv, staff |-> store.staff, msg |-> m ]

\* render_template("signup.html") with a flashed message
Rendered(csv, staffNow, sess, m) == Outcome(inject_globals(csv, staffNow, sess), m)

\* signup past add_staff_to_csv: the store is reloaded and the user looked up
signup_saved(saved, sess) ==
  IF saved.found THEN Outcome(saved, "Registered")
  ELSE Rendered(saved.csv, saved.staff, sess, "RegistrationFailed")

\* signup past the existence check
signup_new(exists, sess, email, f_password, first, last, role_value) ==
  IF exists.found THEN Outcome(exists, "AlreadyRegistered")
  ELSE signup_saved(
         MatchUser(load_staff_from_csv(load_staff_from_csv(
                     add_staff_to_csv(exists.csv, exists.staff, email,
                                      generate_password_hash(f_password), first, last,
                                      << >>, << >>, << >>, << >>, role_value, T_YES).csv).csv),
                   email),
         sess)

\* signup past the reading of the form
signup_form(csv, staffNow, sess, email, f_password, first, last, role_value) ==
  IF ~Contains(email, "@") \/ ~Contains(SplitAt1(email), ".")
  THEN Rendered(csv, staffNow, sess, "InvalidEmail")
  ELSE IF f_password = << >> \/ Len(f_password) < 6
  THEN Rendered(csv, staffNow, sess, "PasswordTooShort")
  ELSE IF first = << >> \/ last = << >>
  THEN Rendered(csv, staffNow, sess, "NameMissing")
  ELSE signup_new(MatchUser(load_staff_from_csv(load_staff_from_csv(csv).csv), email),
                  sess, email, f_password, first, last, role_value)

\* signup (POST): the store, the cache and the outcome
signup(csv, staffNow, sess, f_email, f_password, f_first, f_last, account_type) ==
  signup_form(csv, staffNow, sess,
              Lower(Strip(sanitize_text(f_email))), f_password,
              Strip(sanitize_text(f_first)), Strip(sanitize_text(f_last)),
              IF account_type = "staff" THEN T_staff ELSE T_customer)

\* add_staff_submit (POST), past require_admin
add_staff_submit(csv, staffNow, f_email, f_password, f_first, f_last) ==
  load_staff_from_csv(
    add_staff_to_csv(csv, staffNow, sanitize_text(f_email),
                     generate_password_hash(f_password),
                     sanitize_text(f_first), sanitize_text(f_last),
                     << >>, << >>, << >>, << >>, T_staff, T_YES).csv)

\* what login puts in the session
Entered(email, user) ==
  [ user_email |-> email,
    user_name  |-> user.first \o << " " >> \o user.last,
    is_staff   |-> (user.role = T_staff),
    admin      |-> IF Lower(email) \in ADMIN_EMAILS THEN email ELSE NoneV ]

LoginOutcome(store, sess, m) ==
  [ csv |-> store.csv, staff |-> store.staff, session |-> sess, msg |-> m ]

\* login with a legacy plaintext password that matched: the stored password
\* is upgraded to a hash (the result of the update is not looked at) and the
\* store reloaded
login_upgraded(upgraded, entered) ==
  LoginOutcome(load_staff_from_csv(upgraded.csv), entered, "LoggedIn")

\* login past the lookup
login_found(found, sess, email, f_password) ==
  LET stored_pw == Strip(found.user.password)
  IN IF ~found.found THEN LoginOutcome(found, sess, "NoAccount")
     ELSE IF stored_pw = << >> THEN LoginOutcome(found, sess, "NoPassword")
     ELSE IF IsHashed(stored_pw)
     THEN IF check_password_hash(stored_pw, f_password)
          THEN LoginOutcome(found, Entered(email, found.user), "LoggedIn")
          ELSE LoginOutcome(found, sess, "InvalidCredentials")
     ELSE IF stored_pw = f_password
     THEN login_upgraded(
            update_user_in_csv(found.csv, found.staff, email,
                               [ password |-> generate_password_hash(f_password) ]),
            Entered(email, found.user))
     ELSE LoginOutcome(found, sess, "InvalidCredentials")

\* login past the reading of the form
login_form(csv, staffNow, sess, email, f_password) ==
  IF email = << >> \/ f_password = << >>
  THEN [ csv |-> csv, staff |-> staffNow, session |-> sess, msg |-> "MissingCredentials" ]
  ELSE login_found(MatchUser(load_staff_from_csv(load_staff_from_csv(csv).csv), email),
                   sess, email, f_password)

\* login (POST) of a session that is not logged in
login(csv, staffNow, sess, f_email, f_password) ==
  login_form(csv, staffNow, sess,
             IF sanitize_text(f_email) = << >> THEN << >>
             ELSE Lower(Strip(sanitize_text(f_email))),
             f_password)

\* the page rendered for the session s2
Page(store, s2) == [ csv |-> store.csv, staff |-> store.staff, session |-> s2 ]

\* welcome past the lookup: a session whose user is not in the store loses
\* user_email and user_name
welcome_found(found, sess) ==
  LET s2 == IF sess.user_email # NoneV /\ sess.user_email # << >> /\ ~found.found
            THEN [ sess EXCEPT !.user_email = NoneV, !.user_name = NoneV ]
            ELSE sess
  IN Page(inject_globals(found.csv, found.staff, s2), s2)

\* welcome: drops the identity of a session whose user is not in the store
welcome(csv, staffNow, sess) ==
  welcome_found(get_user_details(csv, staffNow, sess.user_email), sess)

\* update_profile past update_user_in_csv
profile_updated(upd, sess, first, last) ==
  IF upd.ok
  THEN LoginOutcome(upd, [ sess EXCEPT !.user_name = first \o << " " >> \o last ],
                    "ProfileUpdated")
  ELSE LoginOutcome(upd, sess, "UpdateFailed")

\* update_profile past require_login and the lookup
profile_found(found, sess, first, last) ==
  IF ~found.found THEN LoginOutcome(found, sess, "LoginRequired")
  ELSE profile_updated(
         update_user_in_csv(found.csv, found.staff, sess.user_email,
           [ first |-> first, last |-> last,
             phone |-> sanitize_text(found.user.phone),
             address |-> sanitize_text(found.user.address),
             dob |-> sanitize_text(found.user.dob),
             sex |-> sanitize_text(found.user.sex) ]),
         sess, first, last)

\* update_profile (POST)
update_profile(csv, staffNow, sess, f_first, f_last) ==
  IF sess.user_email = NoneV
  THEN [ csv |-> csv, staff |-> staffNow, session |-> sess, msg |-> "LoginRequired" ]
  ELSE profile_found(get_user_details(csv, staffNow, sess.user_email), sess,
                     sanitize_text(f_first), sanitize_text(f_last))

\* ------------------------------------------------------- the schedule store
ScheduleDict(d) ==
  [ manager |-> d["Manager"], date |-> d["Date"], time |-> d["Time"],
    staff_email |-> d["staff_Email"], staff_name |-> d["staff_Name"],
    work_time |-> d["work_Time"] ]

\* a load that gives the newest entry first
load_schedules_from_csv_newest_first(csv) ==
  [ i \in 1..Len(csv.rows) |->
      ScheduleDict(DictRow(csv.header, csv.rows[Len(csv.rows) + 1 - i])) ]

load_schedules_from_csv(csv) ==
  [ i \in 1..Len(csv.rows) |-> ScheduleDict(DictRow(csv.header, csv.rows[i])) ]

\* a date text that strptime accepts has no blanks or line breaks in it, so
\* _sanitize_for_csv writes it as it is
sanitize_date(d) == d

IsWorkingDay(date_str) ==
  ~StrptimeFails(date_str) /\ DayName(date_str) \in Range(WORKING_DAYS)

Matches(s, staff_email, date_str, time_slot) ==
  s.staff_email = staff_email /\ s.date = date_str /\ s.time = time_slot

MatchesIgnoringDate(s, staff_email, date_str, time_slot) ==
  s.staff_email = staff_email /\ s.time = time_slot

\* a scan that does not look at the date
SlotFree_ignoring_date(list, staff_email, date_str, time_slot) ==
  \A i \in 1..Len(list) : ~MatchesIgnoringDate(list[i], staff_email, date_str, time_slot)

\* the scan of is_time_slot_available over the reloaded list
SlotFree(list, staff_email, date_str, time_slot) ==
  \A i \in 1..Len(list) : ~Matches(list[i], staff_email, date_str, time_slot)

\* is_time_slot_available: the answer and my_truck.schedules afterwards (the
\* list is reloaded only past the working-day check)
is_time_slot_available(csv, schedNow, staff_email, date_str, time_slot) ==
  IF ~IsWorkingDay(date_str)
  THEN [ free |-> FALSE, schedules |-> schedNow ]
  ELSE [ free |-> SlotFree(load_schedules_from_csv(csv), staff_email, date_str, time_slot),
         schedules |-> load_schedules_from_csv(csv) ]

\* the loop of get_available_slots over TIME_SLOTS[k..]
RECURSIVE SlotsFrom(_, _, _, _)
SlotsFrom(k, csv, staff_email, date_str) ==
  IF k > Len(TIME_SLOTS) THEN << >>
  ELSE (IF is_time_slot_available(csv, << >>, staff_email, date_str, TIME_SLOTS[k]).free
        THEN << TIME_SLOTS[k] >> ELSE << >>)
       \o SlotsFrom(k + 1, csv, staff_email, date_str)

get_available_slots(csv, schedNow, staff_email, date_str) ==
  IF ~IsWorkingDay(date_str)
  THEN [ slots |-> << >>, schedules |-> schedNow ]
  ELSE [ slots |-> SlotsFrom(1, csv, staff_email, date_str),
         schedules |-> load_schedules_from_csv(csv) ]

\* the "prevent double booking" loop of book_schedule over my_truck.schedules
AlreadyBooked(schedNow, staff_email, date, time) ==
  \E i \in 1..Len(schedNow) : Matches(schedNow[i], staff_email, date, time)

\* the row book_schedule writes: every field through _sanitize_for_csv
ScheduleRow(manager, date, time, staff_email, staff_name, work_time) ==
  << sanitize_for_csv(manager), sanitize_date(date), sanitize_for_csv(time),
     sanitize_for_csv(staff_email), sanitize_for_csv(staff_name),
     sanitize_for_csv(work_time) >>

\* a write that looks the row up in the file first (the code has no such guard)
append_schedule_row_guarded(csv, row) ==
  IF \E i \in 1..Len(csv.rows) :
       csv.rows[i][2] = row[2] /\ csv.rows[i][3] = row[3] /\ csv.rows[i][4] = row[4]
  THEN csv
  ELSE [ csv EXCEPT !.rows = Append(@, row) ]

\* a write that opens the file with "w": the row replaces what was there
append_schedule_row_truncating(csv, row) == [ csv EXCEPT !.rows = << row >> ]

\* open(path, "a"); writer.writerow(...)
append_schedule_row(csv, row) == [ csv EXCEPT !.rows = Append(@, row) ]

\* self.schedules.append({...})
append_schedule_entry(schedNow, row) ==
  Append(schedNow, ScheduleDict(DictRow(SCHEDULES_HEADER, row)))

\* book_schedule: compares the arguments as given, stores them sanitised
book_schedule(csv, schedNow, manager, date, time, staff_email, staff_name, work_time) ==
  LET row == ScheduleRow(manager, date, time, staff_email, staff_name, work_time)
  IN IF AlreadyBooked(schedNow, staff_email, date, time)
     THEN [ csv |-> csv, schedules |-> schedNow, ok |-> FALSE ]
     ELSE [ csv |-> append_schedule_row(csv, row),
            schedules |-> append_schedule_entry(schedNow, row),
            ok |-> TRUE ]

\* what book_helper leaves: the stores, the caches and its (success, message)
BookOutcome(u, st, sc, sl, ok, m) ==
  [ usersCsv |-> u, staff |-> st, schedCsv |-> sc, schedules |-> sl, ok |-> ok, msg |-> m ]

\* book_helper past book_schedule
book_result(found, avail, scsv, booked) ==
  IF booked.ok
  THEN BookOutcome(found.csv, found.staff, booked.csv, booked.schedules, TRUE, "Booked")
  ELSE BookOutcome(found.csv, found.staff, scsv, avail.schedules, FALSE, "FailedToBook")

\* a booking that takes the email for the display name
book_slot_named_by_email(found, avail, scsv, manager, date_str, time_slot, staff_email, work_time) ==
  IF ~avail.free
  THEN BookOutcome(found.csv, found.staff, scsv, avail.schedules, FALSE, "SlotConflict")
  ELSE book_result(found, avail, scsv,
                   book_schedule(scsv, avail.schedules, manager, date_str, time_slot,
                                 staff_email, staff_email, work_time))

\* book_helper past the availability check
book_slot(found, avail, scsv, manager, date_str, time_slot, staff_email, work_time) ==
  IF ~avail.free
  THEN BookOutcome(found.csv, found.staff, scsv, avail.schedules, FALSE, "SlotConflict")
  ELSE book_result(found, avail, scsv,
                   book_schedule(scsv, avail.schedules, manager, date_str, time_slot,
                                 staff_email,
                                 found.user.first \o << " " >> \o found.user.last,
                                 work_time))

\* a row written for an e-mail that no user has
book_staff_writing_unknown(found, scsv, schedNow, manager, date_str, time_slot, staff_email, work_time) ==
  IF ~found.found
  THEN BookOutcome(found.csv, found.staff,
                   append_schedule_row(scsv, ScheduleRow(manager, date_str, time_slot,
                                                         staff_email, << >>, work_time)),
                   schedNow, FALSE, "StaffNotFound")
  ELSE book_slot(found,
                 is_time_slot_available(scsv, schedNow, staff_email, date_str, time_slot),
                 scsv, manager, date_str, time_slot, staff_email, work_time)

\* book_helper past the staff lookup
book_staff(found, scsv, schedNow, manager, date_str, time_slot, staff_email, work_time) ==
  IF ~found.found
  THEN BookOutcome(found.csv, found.staff, scsv, schedNow, FALSE, "StaffNotFound")
  ELSE book_slot(found,
                 is_time_slot_available(scsv, schedNow, staff_email, date_str, time_slot),
                 scsv, manager, date_str, time_slot, staff_email, work_time)

\* the staff lookup ahead of the slot check
book_staff_first(found, scsv, schedNow, manager, date_str, time_slot, staff_email, work_time) ==
  IF ~found.found
  THEN BookOutcome(found.csv, found.staff, scsv, schedNow, FALSE, "StaffNotFound")
  ELSE IF time_slot \notin Range(TIME_SLOTS)
  THEN BookOutcome(found.csv, found.staff, scsv, schedNow, FALSE, "InvalidSlot")
  ELSE book_slot(found,
                 is_time_slot_available(scsv, schedNow, staff_email, date_str, time_slot),
                 scsv, manager, date_str, time_slot, staff_email, work_time)

\* book_helper with the staff lookup ahead of the slot check
book_helper_staff_first(ucsv, staffNow, scsv, schedNow, manager, date_str, time_slot, staff_email, work_time) ==
  IF StrptimeFails(date_str)
  THEN BookOutcome(ucsv, staffNow, scsv, schedNow, FALSE, "InvalidDateFormat")
  ELSE IF DayName(date_str) \notin Range(WORKING_DAYS)
  THEN BookOutcome(ucsv, staffNow, scsv, schedNow, FALSE, "NotWorkingDay")
  ELSE book_staff_first(get_user_details(ucsv, staffNow, staff_email), scsv, schedNow,
                        manager, date_str, time_slot, staff_email, work_time)

\* book_helper: validation in order, then book_schedule
book_helper(ucsv, staffNow, scsv, schedNow, manager, date_str, time_slot, staff_email, work_time) ==
  IF StrptimeFails(date_str)
  THEN BookOutcome(ucsv, staffNow, scsv, schedNow, FALSE, "InvalidDateFormat")
  ELSE IF DayName(date_str) \notin Range(WORKING_DAYS)
  THEN BookOutcome(ucsv, staffNow, scsv, schedNow, FALSE, "NotWorkingDay")
  ELSE IF time_slot \notin Range(TIME_SLOTS)
  THEN BookOutcome(ucsv, staffNow, scsv, schedNow, FALSE, "InvalidSlot")
  ELSE book_staff(get_user_details(ucsv, staffNow, staff_email), scsv, schedNow,
                  manager, date_str, time_slot, staff_email, work_time)

\* ----------------------------------------------------- text of order lines
\* needle in hay
IsSubstring(needle, hay) ==
  \E i \in 0..(Len(hay) - Len(needle)) : SubSeq(hay, i + 1, i + Len(needle)) = needle

\* str.split(c)
RECURSIVE Split(_, _)
Split(s, c) ==
  IF ~Contains(s, c) THEN << s >> ELSE << UpTo(s, c) >> \o Split(After(s, c), c)

\* [ p.strip() for p in parts ]
StripAll(parts) == [ i \in 1..Len(parts) |-> Strip(parts[i]) ]

\* [ p for p in parts if p ]
NonEmpty(parts) == SelectSeq(parts, LAMBDA p : p # << >>)

\* " x" stands at position i of s
SepAt(s, i) == i + 1 <= Len(s) /\ s[i] = " " /\ s[i + 1] = "x"

\* " x" in s
HasSep(s) == \E i \in 1..Len(s) : SepAt(s, i)

\* where s.rsplit(" x", 1) cuts
LastSep(s) ==
  CHOOSE i \in 1..Len(s) : SepAt(s, i) /\ \A j \in (i + 1)..Len(s) : ~SepAt(s, j)

DIGITS == << "0", "1", "2", "3", "4", "5", "6", "7", "8", "9" >>

DigitValue(c) == (CHOOSE i \in 1..10 : DIGITS[i] = c) - 1

RECURSIVE DigitsValue(_)
DigitsValue(s) ==
  IF s = << >> THEN 0
  ELSE DigitsValue(SubSeq(s, 1, Len(s) - 1)) * 10 + DigitValue(s[Len(s)])

Unsigned(t) == IF t # << >> /\ Head(t) \in { "+", "-" } THEN Tail(t) ELSE t

\* int(text) raises ValueError
IntRaises(text) ==
  Unsigned(Strip(text)) = << >> \/ ~(Range(Unsigned(Strip(text))) \subseteq Range(DIGITS))

\* int(text): surrounding blanks and a sign are accepted
int(text) ==
  IF Head(Strip(text)) = "-" THEN 0 - DigitsValue(Unsigned(Strip(text)))
  ELSE DigitsValue(Unsigned(Strip(text)))

\* str(n) of a natural number
RECURSIVE IntToText(_)
IntToText(n) ==
  IF n < 10 THEN << DIGITS[n + 1] >> ELSE IntToText(n \div 10) \o << DIGITS[(n % 10) + 1] >>

\* ------------------------------------------------------------ the menu store
\* Prices and amounts are whole cents: 7.99 is 799.  The program holds them as
\* floats of two decimals, sums them and rounds the sum to two decimals.
\* an amount as the file holds it: the text of a float, kept as its cents
Money(cents) == << "$", cents >>

\* float(text) of an amount
Cents(money) == money[2]

MENU_HEADER ==
  << "Item_ID", "Name", "Description", "Price", "Category", "Vegan", "Image",
     "Allergens", "Available" >>

T_True  == << "T", "r", "u", "e" >>
T_False == << "F", "a", "l", "s", "e" >>
T_true  == << "t", "r", "u", "e" >>

N_VeggieBurger == << "V", "e", "g", "g", "i", "e", " ", "B", "u", "r", "g", "e", "r" >>
N_CocaCola     == << "C", "o", "c", "a", "-", "C", "o", "l", "a" >>
N_IcedTea      == << "I", "c", "e", "d", " ", "T", "e", "a" >>

MenuRow(id, name, price, vegan, allergens, available) ==
  << id, name, << "d" >>, price, << "c" >>, vegan, << "i" >>, allergens, available >>

\* default_items of initialize_default_menu: three of its fifteen rows
default_items ==
  << MenuRow(<< "9" >>, N_VeggieBurger, Money(799), T_True, << "g", "l", "u", "t", "e", "n", ",", "s", "o", "y" >>, T_True),
     MenuRow(<< "1", "0" >>, N_CocaCola, Money(249), T_True, << >>, T_True),
     MenuRow(<< "1", "2" >>, N_IcedTea, Money(299), T_True, << >>, T_True) >>

\* the allergens of a row: [ a.strip() for a in text.split(",") if a.strip() ]
Allergens(text) == IF text = NoneV THEN << >> ELSE NonEmpty(StripAll(Split(text, ",")))

MenuItem(d) ==
  [ item_id     |-> d.Item_ID,
    name        |-> Strip(d.Name),
    description |-> Strip(d.Description),
    price       |-> Cents(d.Price),
    category    |-> Strip(d.Category),
    vegan       |-> Lower(d.Vegan) = T_true,
    image       |-> Strip(d.Image),
    allergens   |-> Allergens(d.Allergens),
    available   |-> Lower(d.Available) = T_true ]

\* rows without a Name are skipped
load_menu_from_csv(csv) ==
  LET named == SelectSeq(csv.rows, LAMBDA row :
                 DictRow(csv.header, row).Name \notin { NoneV, << >> })
  IN [ i \in 1..Len(named) |-> MenuItem(DictRow(csv.header, named[i])) ]

\* the file exists: it is written again only when it holds no row
initialize_default_menu(csv) ==
  IF csv.rows = << >> THEN [ header |-> MENU_HEADER, rows |-> default_items ] ELSE csv

Available(items) == SelectSeq(items, LAMBDA item : item.available)

\* the available items, and the file as the call leaves it
get_menu_items(csv) ==
  IF Available(load_menu_from_csv(csv)) # << >>
  THEN [ csv |-> csv, items |-> Available(load_menu_from_csv(csv)) ]
  ELSE [ csv   |-> initialize_default_menu(csv),
         items |-> Available(load_menu_from_csv(initialize_default_menu(csv))) ]

MenuNames(items) == { items[i].name : i \in 1..Len(items) }

\* a dict built in list order keeps the last item of each name
LastNamed(items, n) ==
  items[CHOOSE i \in 1..Len(items) :
          items[i].name = n /\ \A j \in (i + 1)..Len(items) : items[j].name # n]

\* item name -> list of allergens
get_menu_allergens(items) == [ n \in MenuNames(items) |-> LastNamed(items, n).allergens ]

\* names matched as they are written, without lowering either side
combined_allergens_as_written(menu_allergens, items_text) ==
  UNION { Range(menu_allergens[n]) :
          n \in { m \in DOMAIN menu_allergens : IsSubstring(m, items_text) } }

\* the allergens of every item whose lowered name is in the lowered text
combined_allergens(menu_allergens, items_text) ==
  LET named == UNION { Range(menu_allergens[n]) :
                       n \in { m \in DOMAIN menu_allergens :
                                 IsSubstring(Lower(m), Lower(items_text)) } }
  IN IF named = { } /\ items_text \in DOMAIN menu_allergens
     THEN Range(menu_allergens[items_text])
     ELSE named

safe_on_menu(menu, items_text, allergy) ==
  [ csv  |-> menu.csv,
    safe |-> ~ \E allergen \in combined_allergens(get_menu_allergens(menu.items), items_text) :
                 IsSubstring(allergen, allergy) ]

\* a check without the early return, asking whether the declaration is in a tag
is_order_safe_declared_in_tag(csv, items_text, allergy_text) ==
  [ csv  |-> get_menu_items(csv).csv,
    safe |-> ~ \E allergen \in combined_allergens(
                    get_menu_allergens(get_menu_items(csv).items), items_text) :
                 IsSubstring(Strip(Lower(allergy_text)), allergen) ]

\* True when no allergen of the ordered items is named in the declaration
is_order_safe_for_allergy(csv, items_text, allergy_text) ==
  IF Strip(Lower(allergy_text)) = << >> THEN [ csv |-> csv, safe |-> TRUE ]
  ELSE safe_on_menu(get_menu_items(csv), items_text, Strip(Lower(allergy_text)))

\* every entry counted once, whatever quantity it states
line_item_single(item_str) ==
  IF HasSep(item_str)
  THEN [ name |-> Strip(SubSeq(item_str, 1, LastSep(item_str) - 1)), quantity |-> 1 ]
  ELSE [ name |-> item_str, quantity |-> 1 ]

\* one entry of the text: "<name> x<quantity>" or "<name>"
line_item(item_str) ==
  IF HasSep(item_str)
  THEN [ name     |-> Strip(SubSeq(item_str, 1, LastSep(item_str) - 1)),
         quantity |-> IF IntRaises(SubSeq(item_str, LastSep(item_str) + 2, Len(item_str)))
                      THEN 1
                      ELSE int(SubSeq(item_str, LastSep(item_str) + 2, Len(item_str))) ]
  ELSE [ name |-> item_str, quantity |-> 1 ]

\* item name -> price
menu_prices(items) == [ n \in MenuNames(items) |-> LastNamed(items, n).price ]

RECURSIVE SumLines(_, _)
SumLines(prices, items_list) ==
  IF items_list = << >> THEN 0
  ELSE (IF line_item(Head(items_list)).name \in DOMAIN prices
        THEN prices[line_item(Head(items_list)).name] * line_item(Head(items_list)).quantity
        ELSE 0)
       + SumLines(prices, Tail(items_list))

price_on_menu(menu, items_text) ==
  [ csv   |-> menu.csv,
    total |-> SumLines(menu_prices(menu.items), StripAll(Split(items_text, ","))) ]

\* round(total, 2) of the priced entries
calculate_order_price(csv, items_text) == price_on_menu(get_menu_items(csv), items_text)

\* ---------------------------------------------------------- the order store
ORDERS_HEADER ==
  << "Order_ID", "Customer_Name", "Customer_Email", "Customer_Phone", "Order_Type",
     "Delivery_Address", "Address_Lat", "Address_Lng", "Delivery_Instructions",
     "Pickup_Instructions", "Item", "Allergy_Info", "Is_Safe", "Timestamp", "Status",
     "Completed_By", "Subtotal", "Delivery_Fee", "Tip_Amount", "Total_Price",
     "Payment_Method", "Masked_Card", "Card_Expiry" >>

T_Pending   == << "Pending" >>
T_Completed == << "Completed" >>
T_delivery  == << "delivery" >>
T_pickup    == << "pickup" >>
T_card      == << "card" >>
T_none      == << "none" >>

\* datetime.now().isoformat(timespec="seconds")
T_now == << "now" >>

\* dict.setdefault / a key assigned only when it is missing
SetDefault(d, key, value) ==
  IF key \in DOMAIN d THEN d
  ELSE [ k \in (DOMAIN d) \cup { key } |-> IF k = key THEN value ELSE d[k] ]

\* the columns appended to a header that lacks them
WithColumns(header, columns) ==
  header \o SelectSeq(columns, LAMBDA c : c \notin Range(header))

\* one loaded order: amounts stay texts, missing columns take their defaults
OrderDict(d) ==
  [ order_id              |-> d["Order_ID"],
    customer_name         |-> d["Customer_Name"],
    customer_email        |-> d["Customer_Email"],
    customer_phone        |-> Get(d, "Customer_Phone", << >>),
    order_type            |-> Get(d, "Order_Type", T_delivery),
    delivery_address      |-> Get(d, "Delivery_Address", << >>),
    address_lat           |-> Get(d, "Address_Lat", << >>),
    address_lng           |-> Get(d, "Address_Lng", << >>),
    delivery_instructions |-> Get(d, "Delivery_Instructions", << >>),
    pickup_instructions   |-> Get(d, "Pickup_Instructions", << >>),
    item                  |-> d["Item"],
    allergy_info          |-> d["Allergy_Info"],
    is_safe               |-> d["Is_Safe"],
    timestamp             |-> d["Timestamp"],
    status                |-> Get(d, "Status", T_Pending),
    completed_by          |-> Get(d, "Completed_By", << >>),
    subtotal              |-> Get(d, "Subtotal", Get(d, "Price", Money(0))),
    delivery_fee          |-> Get(d, "Delivery_Fee", Money(0)),
    tip_amount            |-> Get(d, "Tip_Amount", Money(0)),
    price                 |-> d["Total_Price"],
    payment_method        |-> Get(d, "Payment_Method", T_card),
    masked_card           |-> Get(d, "Masked_Card", << >>),
    card_expiry           |-> Get(d, "Card_Expiry", << >>) ]

\* self.orders after the load: one dict per row of the file, in file order
load_orders_from_csv(csv) ==
  [ i \in 1..Len(csv.rows) |-> OrderDict(DictRow(csv.header, csv.rows[i])) ]

\* start-up: a header without Status, Completed_By or Price is widened and the
\* file written again; Price is the price of the row's Item on the menu
migrate_orders_csv(csv, menu) ==
  IF { "Status", "Completed_By", "Price" } \subseteq Range(csv.header) THEN csv
  ELSE [ header |-> WithColumns(csv.header, << "Status", "Completed_By", "Price" >>),
         rows   |-> [ i \in 1..Len(csv.rows) |->
                       DictToList(WithColumns(csv.header, << "Status", "Completed_By", "Price" >>),
                         SetDefault(SetDefault(SetDefault(DictRow(csv.header, csv.rows[i]),
                           "Status", T_Pending), "Completed_By", << >>),
                           "Price", Money(calculate_order_price(menu, csv.rows[i][IndexOf(csv.header, "Item")]).total))) ] ]

\* the row add_order_to_csv writes
OrderRow(order_id, customer_name, customer_email, customer_phone, order_type, delivery_address, items_text, allergy_info, is_safe, subtotal, delivery_fee, tip_amount, payment_method, masked_card, card_expiry) ==
  << IntToText(order_id), sanitize_for_csv(customer_name), sanitize_for_csv(customer_email),
     sanitize_for_csv(customer_phone), sanitize_for_csv(order_type),
     sanitize_for_csv(delivery_address), << >>, << >>, << >>, << >>,
     sanitize_for_csv(items_text), sanitize_for_csv(allergy_info),
     IF is_safe THEN T_YES ELSE T_NO, sanitize_for_csv(T_now), T_Pending, << >>,
     Money(subtotal), Money(delivery_fee), Money(tip_amount),
     Money(subtotal + delivery_fee + tip_amount),
     sanitize_for_csv(payment_method), sanitize_for_csv(masked_card),
     sanitize_for_csv(card_expiry) >>

\* the row goes to the end of the file and its dict to the end of self.orders
order_added(csv, ordersNow, row) ==
  [ csv    |-> [ csv EXCEPT !.rows = Append(@, row) ],
    orders |-> Append(ordersNow, OrderDict(DictRow(ORDERS_HEADER, row))) ]

\* an id taken from the number of orders still pending
add_order_to_csv_counting_pending(csv, ordersNow, safe, priced, customer_name, customer_email, customer_phone, order_type, delivery_address, items_text, allergy_info, tip_amount, delivery_fee, payment_method, masked_card, card_expiry) ==
  order_added(csv, ordersNow,
    OrderRow(Len(SelectSeq(ordersNow, LAMBDA o : o.status = T_Pending)) + 1, customer_name,
             customer_email, customer_phone, order_type, delivery_address, items_text,
             allergy_info, safe, priced, delivery_fee, tip_amount, payment_method,
             masked_card, card_expiry))

\* add_order_to_csv: the id is the length of self.orders plus one; the safety
\* check and the pricing read the menu (safe, priced: their results)
add_order_to_csv(csv, ordersNow, safe, priced, customer_name, customer_email, customer_phone, order_type, delivery_address, items_text, allergy_info, tip_amount, delivery_fee, payment_method, masked_card, card_expiry) ==
  order_added(csv, ordersNow,
    OrderRow(Len(ordersNow) + 1, customer_name, customer_email, customer_phone, order_type,
             delivery_address, items_text, allergy_info, safe, priced, delivery_fee,
             tip_amount, payment_method, masked_card, card_expiry))

\* a rewrite that marks every row, whatever its Order_ID
StatusDict_every_row(d, order_id, status, completed_by, price) ==
  SetDefault([ k \in (DOMAIN d) \cup { "Status", "Completed_By" } |->
                 IF k = "Status" THEN status
                 ELSE IF k = "Completed_By" THEN completed_by ELSE d[k] ],
             "Price", price)

\* the dict of one row as update_order_status writes it back
StatusDict(d, order_id, status, completed_by, price) ==
  SetDefault(SetDefault(SetDefault(
    IF d["Order_ID"] = order_id
    THEN [ k \in (DOMAIN d) \cup { "Status", "Completed_By" } |->
             IF k = "Status" THEN status
             ELSE IF k = "Completed_By" THEN completed_by ELSE d[k] ]
    ELSE d,
    "Status", T_Pending), "Completed_By", << >>), "Price", price)

\* every row read is priced for its setdefault, and pricing reads the menu
MenuAfterPricing(csv, menu) == IF csv.rows = << >> THEN menu ELSE get_menu_items(menu).csv

\* a rewrite of the matched rows only
update_order_status_matched_only(csv, menu, ordersNow, order_id, status, completed_by) ==
  IF \E i \in 1..Len(csv.rows) : DictRow(csv.header, csv.rows[i])["Order_ID"] = order_id
  THEN LET fieldnames == WithColumns(csv.header, << "Status", "Completed_By", "Price" >>)
           matched == SelectSeq(csv.rows, LAMBDA row : DictRow(csv.header, row)["Order_ID"] = order_id)
           written == [ header |-> fieldnames,
                        rows   |-> [ i \in 1..Len(matched) |->
                           DictToList(fieldnames,
                             StatusDict(DictRow(csv.header, matched[i]), order_id, status,
                               completed_by,
                               Money(calculate_order_price(menu, DictRow(csv.header, matched[i])["Item"]).total))) ] ]
       IN [ csv |-> written, orders |-> load_orders_from_csv(written), updated |-> TRUE,
            menu |-> MenuAfterPricing(csv, menu) ]
  ELSE [ csv |-> csv, orders |-> ordersNow, updated |-> FALSE,
         menu |-> MenuAfterPricing(csv, menu) ]

\* update_order_status: every row whose Order_ID is the given text gets the
\* status and completed_by; the file is written again only when one matched
update_order_status(csv, menu, ordersNow, order_id, status, completed_by) ==
  IF \E i \in 1..Len(csv.rows) : DictRow(csv.header, csv.rows[i])["Order_ID"] = order_id
  THEN LET fieldnames == WithColumns(csv.header, << "Status", "Completed_By", "Price" >>)
           written == [ header |-> fieldnames,
                        rows   |-> [ i \in 1..Len(csv.rows) |->
                           DictToList(fieldnames,
                             StatusDict(DictRow(csv.header, csv.rows[i]), order_id, status,
                               completed_by,
                               Money(calculate_order_price(menu, DictRow(csv.header, csv.rows[i])["Item"]).total))) ] ]
       IN [ csv |-> written, orders |-> load_orders_from_csv(written), updated |-> TRUE,
            menu |-> MenuAfterPricing(csv, menu) ]
  ELSE [ csv |-> csv, orders |-> ordersNow, updated |-> FALSE,
         menu |-> MenuAfterPricing(csv, menu) ]

\* -------------------------------------------------------------------- the cart
\* session["cart"]: item name -> {price, qty}, in the order the names came in
CartNames(c) == { c[i].name : i \in 1..Len(c) }

add_to_cart(c, item_name, price) ==
  IF item_name \in CartNames(c)
  THEN [ i \in 1..Len(c) |->
           IF c[i].name = item_name THEN [ c[i] EXCEPT !.qty = @ + 1 ] ELSE c[i] ]
  ELSE Append(c, [ name |-> item_name, price |-> price, qty |-> 1 ])

\* ", ".join(f"{name} x{qty}")
RECURSIVE items_summary(_)
items_summary(c) ==
  IF c = << >> THEN << >>
  ELSE Head(c).name \o << " ", "x" >> \o IntToText(Head(c).qty)
       \o (IF Tail(c) = << >> THEN << >> ELSE << ",", " " >> \o items_summary(Tail(c)))

\* sum(item["price"] * item["qty"])
RECURSIVE CartTotal(_)
CartTotal(c) == IF c = << >> THEN 0 ELSE Head(c).price * Head(c).qty + CartTotal(Tail(c))

\* card_number.replace(" ", "")
Unspaced(text) == SelectSeq(text, LAMBDA ch : ch # " ")

\* a mask that is followed by the whole number
masked_card_keeping_number(card_number, payment_method) ==
  IF card_number # << >> /\ payment_method = T_card /\ Len(Unspaced(card_number)) >= 4
  THEN << "*", "*", "*", "*", " ", "*", "*", "*", "*", " ", "*", "*", "*", "*", " " >>
       \o Unspaced(card_number)
  ELSE << >>

\* only the last four digits of a card number are kept
masked_card(card_number, payment_method) ==
  IF card_number # << >> /\ payment_method = T_card /\ Len(Unspaced(card_number)) >= 4
  THEN << "*", "*", "*", "*", " ", "*", "*", "*", "*", " ", "*", "*", "*", "*", " " >>
       \o SubSeq(Unspaced(card_number), Len(Unspaced(card_number)) - 3, Len(Unspaced(card_number)))
  ELSE << >>

\* 2.99 for a delivery, nothing otherwise
DELIVERY_FEE == 299

delivery_fee(order_type) == IF order_type = T_delivery THEN DELIVERY_FEE ELSE 0

\* ------------------------------------------------- cart and order handlers
\* what a cart or order request leaves behind
Shop(usersNow, staffNow, csv, ordersNow, menu, c, msg, total) ==
  [ users |-> usersNow, staff |-> staffNow, ordersCsv |-> csv, orders |-> ordersNow,
    menuCsv |-> menu, cart |-> c, msg |-> msg, total |-> total ]

\* a form field left empty is filled from the profile of the logged-in user
FromProfile(found, field, value) == IF found.found /\ field = << >> THEN value ELSE field

\* an order that leaves the cart as it was
checkout_added_keeping_cart(found, menu, added, c, total) ==
  Shop(found.csv, found.staff, added.csv, load_orders_from_csv(added.csv), menu, c,
       "Confirmed", total)

\* the order is in the file: the orders are loaded again and the cart emptied
checkout_added(found, menu, added, c, total) ==
  Shop(found.csv, found.staff, added.csv, load_orders_from_csv(added.csv), menu, << >>,
       "Confirmed", total)

\* POST /checkout with a cart (found: the logged-in user; menu: the menu file
\* after the page's menu reads)
checkout_post(found, menu, csv, ordersNow, c, form) ==
  checkout_added(found, menu,
    add_order_to_csv(csv, ordersNow,
      is_order_safe_for_allergy(menu, items_summary(c), form.allergy_info).safe,
      calculate_order_price(menu, items_summary(c)).total,
      FromProfile(found, form.customer_name,
                  Strip(found.user.first \o << " " >> \o found.user.last)),
      FromProfile(found, form.customer_email, found.user.email),
      FromProfile(found, form.customer_phone, found.user.phone),
      form.order_type,
      IF form.order_type = T_delivery
      THEN FromProfile(found, form.delivery_address, found.user.address)
      ELSE form.delivery_address,
      items_summary(c), form.allergy_info, form.tip_amount, delivery_fee(form.order_type),
      form.payment_method, masked_card(form.card_number, form.payment_method),
      form.card_expiry),
    c, CartTotal(c) + delivery_fee(form.order_type) + form.tip_amount)

\* GET /checkout with a cart: the form is shown with the cart's total
checkout_get(found, menu, csv, ordersNow, c) ==
  Shop(found.csv, found.staff, csv, ordersNow, menu, c, "Form", CartTotal(c))

checkout_cart(found, menu, csv, ordersNow, c, method, form) ==
  IF method = "POST" THEN checkout_post(found, menu, csv, ordersNow, c, form)
  ELSE checkout_get(found, menu, csv, ordersNow, c)

\* /checkout: an empty cart is sent back to the menu before anything is read
\* (found: what get_user_details gives for the session's user; menuRead: the
\* menu file after get_menu_items; both are used only with a cart)
checkout(found, menuRead, usersNow, staffNow, csv, ordersNow, menu, c, method, form) ==
  IF c = << >>
  THEN Shop(usersNow, staffNow, csv, ordersNow, menu, c, "ToMenu", 0)
  ELSE checkout_cart(found, menuRead, csv, ordersNow, c, method, form)

complete_done(found, upd, c) ==
  Shop(found.csv, found.staff, upd.csv, upd.orders, upd.menu, c,
       IF upd.updated THEN "Completed" ELSE "Failed", 0)

\* the staff name is read under the keys First_Name and Last_Name of the user
complete_for(found, csv, ordersNow, menu, c, order_id) ==
  IF order_id # << >> /\ found.found
  THEN complete_done(found,
         update_order_status(csv, menu, ordersNow, order_id, T_Completed,
           Strip(Get(found.user, "First_Name", << >>) \o << " " >>
                 \o Get(found.user, "Last_Name", << >>))), c)
  ELSE Shop(found.csv, found.staff, csv, ordersNow, menu, c, "Orders", 0)

\* POST /staff/orders/complete: for a logged-in staff or admin session only
\* (found: what get_user_details gives for the session's user, read only once
\* the session has passed)
complete_order(found, usersNow, staffNow, sess, csv, ordersNow, menu, c, order_id) ==
  IF sess.user_email = NoneV
  THEN Shop(usersNow, staffNow, csv, ordersNow, menu, c, "ToLogin", 0)
  ELSE IF ~(sess.is_staff \/ sess.admin # NoneV)
  THEN Shop(usersNow, staffNow, csv, ordersNow, menu, c, "Restricted", 0)
  ELSE complete_for(found, csv, ordersNow, menu, c, order_id)

\* ------------------------------------------------------------------ inputs
SignupEmails  == { E_a, E_A, E_b, E_bad }
\* signup forms: every email with a well-formed rest, and two ill-formed ones
SignupForms ==
  { [ email |-> e, password |-> PW_good, first |-> << "A" >>, type |-> t ] :
      e \in SignupEmails, t \in { "staff", "customer" } }
  \cup { [ email |-> E_a, password |-> PW_short, first |-> << "A" >>, type |-> "staff" ],
         [ email |-> E_a, password |-> PW_good, first |-> << >>, type |-> "staff" ] }
LoginEmails   == { E_a, E_b }
Passwords     == { PW_good, PW_short }
NewFirstNames == { << "A" >>, << "B" >> }
LastName      == << "Z" >>

D_mon == << 2024, 6, 10 >>
D_tue == << 2024, 6, 11 >>
D_wed == << 2024, 6, 12 >>
D_bad == << 2024, 6, 31 >>

BookEmails == { E_a, E_spa, E_c }
BookDates  == { D_mon, D_tue, D_bad }
SlotDates  == BookDates \cup { D_wed }
BookTimes  == { << "09:00" >>, << "10:00" >>, << "08:00" >> }

\* in-flight booking requests of the interleaved runs
Reqs == { "r1", "r2" }

NoReq == [ date |-> BadDateText, time |-> << >>, email |-> << >>, name |-> << >>,
           msg |-> "" ]

ConcDates  == { D_mon, D_tue }
ConcTimes  == { << "09:00" >>, << "10:00" >> }
ConcEmails == { E_a, E_spa }

\* ---------------------------------------------------------------- start-up
UserRow(email, password, first, role) ==
  << email, password, first, LastName, << >>, << >>, << >>, << >>, role, T_YES >>

\* data/users.csv as start-up may find it: created just now, holding
\* registered staff, or a legacy file without Role / Verified and with a
\* plaintext password
FreshUsers == [ header |-> USERS_HEADER, rows |-> << >> ]

PopulatedUsers ==
  [ header |-> USERS_HEADER,
    rows   |-> << UserRow(E_a, generate_password_hash(PW_good), << "A" >>, T_staff),
                  UserRow(E_b, generate_password_hash(PW_good), << "B" >>, T_staff) >> ]

LegacyUsers ==
  [ header |-> SubSeq(USERS_HEADER, 1, 8),
    rows   |-> << << E_b, PW_good, << "B" >>, LastName, << >>, << >>, << >>, << >> >> >> ]

InitialUsersFiles == { FreshUsers, PopulatedUsers, LegacyUsers }

\* start-up creates data/orders.csv and data/menu.csv, widens the orders header
\* and fills the empty menu with the default items; the cart is not in the cookie
ShopInit ==
  /\ menuCsv = initialize_default_menu([ header |-> MENU_HEADER, rows |-> << >> ])
  /\ ordersCsv = migrate_orders_csv([ header |-> ORDERS_HEADER, rows |-> << >> ],
                                     [ header |-> MENU_HEADER, rows |-> << >> ])
  /\ orders = load_orders_from_csv([ header |-> ORDERS_HEADER, rows |-> << >> ])
  /\ cart = << >>

Init ==
  /\ \E ld \in { load_staff_from_csv(f) : f \in InitialUsersFiles } :
       /\ usersCsv = ld.csv
       /\ staff = ld.staff
  /\ schedCsv = [ header |-> SCHEDULES_HEADER, rows |-> << >> ]
  /\ schedules = << >>
  /\ session = NoSession
  /\ resp = NoResp
  /\ pc = [ r \in Reqs |-> "idle" ]
  /\ req = [ r \in Reqs |-> NoReq ]
  /\ ShopInit

\* ------------------------------------------------------------ user actions
UserResp(op, email, msg) == Response(op, email, BadDateText, << >>, msg, << >>)

Signup(f_email, f_password, f_first, account_type) ==
  \E r \in { signup(usersCsv, staff, session, f_email, f_password, f_first, LastName,
                    account_type) } :
     /\ Len(r.csv.rows) <= MaxUsers
     /\ usersCsv' = r.csv
     /\ staff' = r.staff
     /\ resp' = [ UserResp("signup", f_email, r.msg) EXCEPT
                     !.form = << f_password, f_first, LastName >> ]
     /\ UNCHANGED << schedCsv, schedules, session, pc, req, shopVars >>

AddStaffSubmit(f_email, f_first) ==
  /\ session.admin # NoneV
  /\ Len(usersCsv.rows) < MaxUsers
  /\ \E r \in { add_staff_submit(usersCsv, staff, f_email, PW_good, f_first, LastName) } :
       /\ usersCsv' = r.csv
       /\ staff' = r.staff
  /\ resp' = UserResp("add_staff", f_email, "Added")
  /\ UNCHANGED << schedCsv, schedules, session, pc, req, shopVars >>

Login(f_email, f_password) ==
  /\ session.user_email = NoneV
  /\ \E r \in { login(usersCsv, staff, session, f_email, f_password) } :
       /\ usersCsv' = r.csv
       /\ staff' = r.staff
       /\ session' = r.session
       /\ resp' = UserResp("login", f_email, r.msg)
  /\ UNCHANGED << schedCsv, schedules, pc, req, shopVars >>

Logout ==
  /\ session # NoSession
  /\ session' = NoSession
  /\ resp' = UserResp("logout", << >>, "LoggedOut")
  /\ UNCHANGED << usersCsv, schedCsv, staff, schedules, pc, req, shopVars >>

Welcome ==
  \E r \in { welcome(usersCsv, staff, session) } :
     /\ usersCsv' = r.csv
     /\ staff' = r.staff
     /\ session' = r.session
     /\ resp' = UserResp("welcome", << >>, "Page")
     /\ UNCHANGED << schedCsv, schedules, pc, req, shopVars >>

UpdateProfile(f_first) ==
  \E r \in { update_profile(usersCsv, staff, session, f_first, LastName) } :
     /\ usersCsv' = r.csv
     /\ staff' = r.staff
     /\ session' = r.session
     /\ resp' = UserResp("update_profile", session.user_email, r.msg)
     /\ UNCHANGED << schedCsv, schedules, pc, req, shopVars >>

NextUsers ==
  \/ \E f \in SignupForms : Signup(f.email, f.password, f.first, f.type)
  \/ \E e \in SignupEmails : AddStaffSubmit(e, << "A" >>)
  \/ \E e \in LoginEmails, p \in Passwords : Login(e, p)
  \/ Logout
  \/ Welcome
  \/ \E f \in NewFirstNames : UpdateProfile(f)

SpecUsers == Init /\ [][NextUsers]_vars

\* --------------------------------------------------------- booking actions
ManagerOf(sess) == IF sess.user_name # NoneV THEN sess.user_name ELSE << "Manager" >>

DefaultWorkTime(time_slot) == time_slot \o << " shift" >>

\* the state after book_helper returned r, and the response to the request
Booked(op, r, date_str, time_slot, staff_email) ==
  /\ Len(r.schedCsv.rows) <= MaxSched
  /\ usersCsv' = r.usersCsv
  /\ staff' = r.staff
  /\ schedCsv' = r.schedCsv
  /\ schedules' = r.schedules
  /\ resp' = Response(op, staff_email, date_str, time_slot, r.msg, << >>)
  /\ UNCHANGED << session, pc, req, shopVars >>

Refused(op, msg) ==
  /\ resp' = Response(op, << >>, BadDateText, << >>, msg, << >>)
  /\ UNCHANGED << usersCsv, schedCsv, staff, schedules, session, pc, req, shopVars >>

\* a /book_schedule that asks for a logged-in session only
BookScheduleSubmit_for_any_login(f_date, f_time, f_email) ==
  IF session.user_email = NoneV
  THEN Refused("book_schedule", "LoginRequired")
  ELSE Booked("book_schedule",
              book_helper(usersCsv, staff, schedCsv, schedules, ManagerOf(session),
                          f_date, f_time, f_email, DefaultWorkTime(f_time)),
              f_date, f_time, f_email)

\* book_schedule_submit: POST /book_schedule, form fields taken as they come
BookScheduleSubmit(f_date, f_time, f_email) ==
  IF session.admin = NoneV
  THEN Refused("book_schedule", "LoginRequired")
  ELSE Booked("book_schedule",
              book_helper(usersCsv, staff, schedCsv, schedules, ManagerOf(session),
                          f_date, f_time, f_email, DefaultWorkTime(f_time)),
              f_date, f_time, f_email)

\* book_appointment: POST /book_appointment, fields through sanitize_text; a
\* session that does not pass require_staff_access gets the status 401 when
\* the request is JSON and the redirect of require_staff_access otherwise
BookAppointment(f_date, f_time, f_email) ==
  LET time_slot   == sanitize_text(f_time)
      staff_email == sanitize_text(f_email)
  IN IF session.user_email = NoneV
     THEN \E expects_json \in BOOLEAN :
            Refused("book_appointment", IF expects_json THEN "Status401" ELSE "AuthRequired")
     ELSE IF ~(session.is_staff \/ session.admin # NoneV)
     THEN \E expects_json \in BOOLEAN :
            Refused("book_appointment", IF expects_json THEN "Status401" ELSE "Restricted")
     ELSE IF time_slot = << >> \/ staff_email = << >>
     THEN Refused("book_appointment", "MissingFields")
     ELSE Booked("book_appointment",
                 book_helper(usersCsv, staff, schedCsv, schedules,
                             sanitize_text(ManagerOf(session)), f_date, time_slot,
                             staff_email, sanitize_text(DefaultWorkTime(time_slot))),
                 f_date, time_slot, staff_email)

\* GET /get_available_slots/<staff>/<date>: the route checks the day itself
GetAvailableSlotsRoute(f_staff, f_date) ==
  /\ IF StrptimeFails(f_date)
     THEN /\ resp' = Response("get_available_slots", sanitize_text(f_staff), f_date,
                              << >>, "InvalidDateFormat", << >>)
          /\ schedules' = schedules
     ELSE IF DayName(f_date) \notin Range(WORKING_DAYS)
     THEN /\ resp' = Response("get_available_slots", sanitize_text(f_staff), f_date,
                              << >>, "NotWorkingDay", << >>)
          /\ schedules' = schedules
     ELSE \E r \in { get_available_slots(schedCsv, schedules, sanitize_text(f_staff),
                                         f_date) } :
            /\ resp' = Response("get_available_slots", sanitize_text(f_staff), f_date,
                                << >>, "Slots", r.slots)
            /\ schedules' = r.schedules
  /\ UNCHANGED << usersCsv, schedCsv, staff, session, pc, req, shopVars >>

\* GET /staff/schedule?date=...: the slots of the session user on a date the
\* request names (any date that parses)
StaffSchedule(f_date) ==
  /\ ~StrptimeFails(f_date)
  /\ session.user_email # NoneV
  /\ session.is_staff \/ session.admin # NoneV
  /\ \E found \in { get_user_details(usersCsv, staff, session.user_email) } :
       /\ found.found
       /\ found.user.role = T_staff \/ session.admin # NoneV
       /\ \E ld \in { load_staff_from_csv(found.csv) } :
            /\ usersCsv' = ld.csv
            /\ staff' = ld.staff
  /\ schedules' = load_schedules_from_csv(schedCsv)
  /\ \E r \in { get_available_slots(schedCsv, load_schedules_from_csv(schedCsv),
                                    session.user_email, f_date) } :
       resp' = Response("staff_schedule", session.user_email, f_date, << >>,
                        "Slots", r.slots)
  /\ UNCHANGED << schedCsv, session, pc, req, shopVars >>

NextBook ==
  \/ \E e \in LoginEmails, p \in Passwords : Login(e, p)
  \/ Logout
  \/ \E d \in BookDates, t \in BookTimes, e \in BookEmails : BookScheduleSubmit(d, t, e)
  \/ \E d \in BookDates, t \in BookTimes, e \in BookEmails : BookAppointment(d, t, e)
  \/ \E e \in BookEmails, d \in SlotDates : GetAvailableSlotsRoute(e, d)
  \/ \E d \in SlotDates : StaffSchedule(d)

SpecBook == Init /\ [][NextBook]_vars

\* ------------------------------------------- booking requests, interleaved
\* Two requests run book_helper in threads of one process: they share the
\* files and my_truck, and each step below is one stretch of book_helper or
\* book_schedule between two accesses to what they share.
InFlight == { r \in Reqs : pc[r] \in { "check", "scan", "write", "append" } }

Done(r, msg) ==
  /\ pc' = [ pc EXCEPT ![r] = "done" ]
  /\ req' = [ req EXCEPT ![r].msg = msg ]

\* a request answered before it reaches the stores
Rejected(r, f_date, f_time, f_email, msg) ==
  /\ pc' = [ pc EXCEPT ![r] = "done" ]
  /\ req' = [ req EXCEPT ![r] = [ date |-> f_date, time |-> f_time, email |-> f_email,
                                  name |-> << >>, msg |-> msg ] ]

\* book_helper up to the staff lookup
ConcStart(r, f_date, f_time, f_email) ==
  /\ pc[r] = "idle"
  /\ Len(schedCsv.rows) + Cardinality(InFlight) < MaxSched
  /\ IF StrptimeFails(f_date)
     THEN Rejected(r, f_date, f_time, f_email, "InvalidDateFormat")
          /\ UNCHANGED << usersCsv, staff >>
     ELSE IF DayName(f_date) \notin Range(WORKING_DAYS)
     THEN Rejected(r, f_date, f_time, f_email, "NotWorkingDay")
          /\ UNCHANGED << usersCsv, staff >>
     ELSE IF f_time \notin Range(TIME_SLOTS)
     THEN Rejected(r, f_date, f_time, f_email, "InvalidSlot")
          /\ UNCHANGED << usersCsv, staff >>
     ELSE \E found \in { get_user_details(usersCsv, staff, f_email) } :
            /\ usersCsv' = found.csv
            /\ staff' = found.staff
            /\ IF found.found
               THEN /\ pc' = [ pc EXCEPT ![r] = "check" ]
                    /\ req' = [ req EXCEPT ![r] =
                                  [ date |-> f_date, time |-> f_time, email |-> f_email,
                                    name |-> found.user.first \o << " " >> \o found.user.last,
                                    msg |-> "" ] ]
               ELSE Rejected(r, f_date, f_time, f_email, "StaffNotFound")
  /\ UNCHANGED << schedCsv, schedules, session, resp, shopVars >>

\* is_time_slot_available: reload and scan
ConcCheck(r) ==
  /\ pc[r] = "check"
  /\ \E avail \in { is_time_slot_available(schedCsv, schedules, req[r].email,
                                           req[r].date, req[r].time) } :
       /\ schedules' = avail.schedules
       /\ IF avail.free
          THEN pc' = [ pc EXCEPT ![r] = "scan" ] /\ req' = req
          ELSE Done(r, "SlotConflict")
  /\ UNCHANGED << usersCsv, schedCsv, staff, session, resp, shopVars >>

\* book_schedule: the loop over my_truck.schedules
ConcScan(r) ==
  /\ pc[r] = "scan"
  /\ IF AlreadyBooked(schedules, req[r].email, req[r].date, req[r].time)
     THEN Done(r, "FailedToBook")
     ELSE pc' = [ pc EXCEPT ![r] = "write" ] /\ req' = req
  /\ UNCHANGED << usersCsv, schedCsv, staff, schedules, session, resp, shopVars >>

ConcRow(r) ==
  ScheduleRow(<< "M" >>, req[r].date, req[r].time, req[r].email, req[r].name,
              DefaultWorkTime(req[r].time))

\* book_schedule: the append to the file
ConcWrite(r) ==
  /\ pc[r] = "write"
  /\ schedCsv' = append_schedule_row(schedCsv, ConcRow(r))
  /\ pc' = [ pc EXCEPT ![r] = "append" ]
  /\ UNCHANGED << usersCsv, staff, schedules, session, resp, req, shopVars >>

\* book_schedule: the append to my_truck.schedules, and the return
ConcAppend(r) ==
  /\ pc[r] = "append"
  /\ schedules' = append_schedule_entry(schedules, ConcRow(r))
  /\ Done(r, "Booked")
  /\ UNCHANGED << usersCsv, schedCsv, staff, session, resp, shopVars >>

\* the response is sent; the thread takes the next request
ConcFinish(r) ==
  /\ pc[r] = "done"
  /\ pc' = [ pc EXCEPT ![r] = "idle" ]
  /\ req' = [ req EXCEPT ![r] = NoReq ]
  /\ UNCHANGED << usersCsv, schedCsv, staff, schedules, session, resp, shopVars >>

NextConc ==
  \/ \E r \in Reqs, d \in ConcDates, t \in ConcTimes, e \in ConcEmails :
       ConcStart(r, d, t, e)
  \/ \E r \in Reqs : ConcCheck(r)
  \/ \E r \in Reqs : ConcScan(r)
  \/ \E r \in Reqs : ConcWrite(r)
  \/ \E r \in Reqs : ConcAppend(r)
  \/ \E r \in Reqs : ConcFinish(r)

SpecConc == Init /\ [][NextConc]_vars

\* ------------------------------------------------- start-up on an old file
\* data/users.csv as an earlier version of the program left it: a header
\* without Role, without Verified or without both, rows as long as the header
\* or cut short
OldHeaders ==
  { SubSeq(USERS_HEADER, 1, 8), SubSeq(USERS_HEADER, 1, 9),
    SubSeq(USERS_HEADER, 1, 8) \o << "Verified" >>, USERS_HEADER }

OldUsers ==
  { UserRow(E_a, PW_good, << "A" >>, T_staff),
    UserRow(E_a, generate_password_hash(PW_good), << " A" >>, T_customer),
    UserRow(E_b, PW_good, << "B" >>, T_staff) }

\* the fields of a full record that a file with this header keeps
RowUnder(header, full) ==
  [ i \in 1..Len(header) |-> full[IndexOf(USERS_HEADER, header[i])] ]

OldRows(header) ==
  { RowUnder(header, u) : u \in OldUsers } \cup { SubSeq(RowUnder(header, u), 1, 7) : u \in { UserRow(E_b, PW_good, << "B" >>, T_staff) } }

OldFiles ==
  { [ header |-> h, rows |-> rs ] :
      h \in OldHeaders, rs \in { << >> } }
  \cup UNION { { [ header |-> h, rows |-> << r1 >> ] : r1 \in OldRows(h) } : h \in OldHeaders }
  \cup UNION { { [ header |-> h, rows |-> << r1, r2 >> ] : r1 \in OldRows(h), r2 \in OldRows(h) } :
               h \in OldHeaders }

\* the process is about to start on the file it finds
InitOld ==
  /\ usersCsv \in OldFiles
  /\ staff = << >>
  /\ schedCsv = [ header |-> SCHEDULES_HEADER, rows |-> << >> ]
  /\ schedules = << >>
  /\ session = NoSession
  /\ resp = NoResp
  /\ pc = [ r \in Reqs |-> "idle" ]
  /\ req = [ r \in Reqs |-> NoReq ]
  /\ ShopInit

\* my_truck.load_staff_from_csv() at start-up
StartUp ==
  /\ resp.op = "none"
  /\ \E ld \in { load_staff_from_csv(usersCsv) } :
       /\ usersCsv' = ld.csv
       /\ staff' = ld.staff
  /\ resp' = UserResp("startup", << >>, "Loaded")
  /\ UNCHANGED << schedCsv, schedules, session, pc, req, shopVars >>

NextStartUp == StartUp

SpecStartUp == InitOld /\ [][NextStartUp]_vars

\* ------------------------------------- users and bookings in one system
\* the user handlers and the booking handlers over the same stores
StaffEmails == { E_a, E_b }

NextStaff ==
  \/ Signup(E_b, PW_good, << "A" >>, "staff")
  \/ AddStaffSubmit(E_b, << "A" >>)
  \/ \E e \in StaffEmails : Login(e, PW_good)
  \/ Logout
  \/ UpdateProfile(<< "B" >>)
  \/ \E e \in StaffEmails : BookScheduleSubmit(D_tue, << "09:00" >>, e)
  \/ \E e \in StaffEmails : BookAppointment(D_tue, << "10:00" >>, e)
  \/ StaffSchedule(D_tue)

SpecStaff == Init /\ [][NextStaff]_vars

\* ------------------------------------------------- cart and order actions
\* sum(item["qty"])
RECURSIVE CartCount(_)
CartCount(c) == IF c = << >> THEN 0 ELSE Head(c).qty + CartCount(Tail(c))

CartItems == { N_VeggieBurger }

\* the price the menu page posts with the item: the price the menu shows
PostedPrice(item_name) ==
  LastNamed(load_menu_from_csv(menuCsv), item_name).price

A_soy == << "S", "o", "y", " " >>

\* the checkout form: a delivery with an allergy declared, nothing else filled
OrderForm ==
  [ customer_name |-> << >>, customer_email |-> << >>, customer_phone |-> << >>,
    order_type |-> T_delivery, delivery_address |-> << >>, tip_amount |-> 0,
    allergy_info |-> A_soy, payment_method |-> T_none, card_number |-> << >>,
    card_expiry |-> << >> ]

OrderIds == { << "1" >>, << "2" >> }

AddToCart(item_name, price) ==
  /\ CartCount(cart) < MaxCart
  /\ cart' = add_to_cart(cart, item_name, price)
  /\ resp' = [ UserResp("add_to_cart", << >>, "Added") EXCEPT !.form = << item_name >> ]
  /\ UNCHANGED << usersCsv, schedCsv, staff, schedules, session, pc, req, ordersCsv,
                  orders, menuCsv >>

ClearCart ==
  /\ cart # << >>
  /\ cart' = << >>
  /\ resp' = UserResp("clear_cart", << >>, "Cleared")
  /\ UNCHANGED << usersCsv, schedCsv, staff, schedules, session, pc, req, ordersCsv,
                  orders, menuCsv >>

Checkout(method, form) ==
  /\ (cart # << >> /\ method = "POST") => Len(ordersCsv.rows) < MaxOrders
  /\ \E found \in { get_user_details(usersCsv, staff, session.user_email) },
        menuRead \in { get_menu_items(menuCsv).csv } :
     \E r \in { checkout(found, menuRead, usersCsv, staff, ordersCsv, orders, menuCsv, cart,
                         method, form) } :
       /\ usersCsv' = r.users
       /\ staff' = r.staff
       /\ ordersCsv' = r.ordersCsv
       /\ orders' = r.orders
       /\ menuCsv' = r.menuCsv
       /\ cart' = r.cart
       /\ resp' = [ UserResp("checkout", << >>, r.msg) EXCEPT
                      !.total = r.total, !.form = << method, form >> ]
  /\ UNCHANGED << schedCsv, schedules, session, pc, req >>

CompleteOrder(order_id) ==
  /\ \E found \in { get_user_details(usersCsv, staff, session.user_email) } :
     \E r \in { complete_order(found, usersCsv, staff, session, ordersCsv, orders, menuCsv,
                               cart, order_id) } :
       /\ usersCsv' = r.users
       /\ staff' = r.staff
       /\ ordersCsv' = r.ordersCsv
       /\ orders' = r.orders
       /\ menuCsv' = r.menuCsv
       /\ cart' = r.cart
       /\ resp' = [ UserResp("complete_order", << >>, r.msg) EXCEPT !.form = << order_id >> ]
  /\ UNCHANGED << schedCsv, schedules, session, pc, req >>

NextOrders ==
  \/ Login(E_a, PW_good)
  \/ \E n \in CartItems : AddToCart(n, PostedPrice(n))
  \/ ClearCart
  \/ \E method \in { "GET", "POST" } : Checkout(method, OrderForm)
  \/ \E id \in OrderIds : CompleteOrder(id)

SpecOrders == Init /\ [][NextOrders]_vars

\* ------------------------------------------------ payment at the checkout
\* the checkout forms: a card with the number in groups, a card number of three
\* digits, and a number typed in with another payment method chosen; card_cvv,
\* card_name and billing_address are read from the form and passed nowhere
C_number == << "1", "2", " ", "3", "4", "5", "6" >>
C_short  == << "1", "2", "3" >>
C_cvv    == << "9", "8", "7" >>
C_expiry == << "0", "1", "/", "3", "0" >>

CardForm ==
  [ OrderForm EXCEPT !.payment_method = T_card, !.card_number = C_number,
                     !.card_expiry = C_expiry, !.tip_amount = 150 ]
    @@ [ card_cvv |-> C_cvv ]

ShortCardForm ==
  [ OrderForm EXCEPT !.order_type = T_pickup, !.payment_method = T_card,
                     !.card_number = C_short, !.card_expiry = C_expiry ]
    @@ [ card_cvv |-> C_cvv ]

NoCardForm ==
  [ OrderForm EXCEPT !.order_type = T_pickup, !.card_number = C_number ]
    @@ [ card_cvv |-> C_cvv ]

PayForms == { CardForm, ShortCardForm, NoCardForm }

\* the price field of the add-to-cart form: the price the menu shows, or any
\* other amount the client sends
PostedPrices(item_name) == { PostedPrice(item_name), 100 }

NextPay ==
  \/ \E n \in CartItems : \E p \in PostedPrices(n) : AddToCart(n, p)
  \/ ClearCart
  \/ \E form \in PayForms : Checkout("POST", form)

SpecPay == Init /\ [][NextPay]_vars

\* --------------------------------------------- the schedule store on its own
\* book_schedule and load_schedules_from_csv called with values of any shape:
\* a name with a line break, with a comma, with blanks around it, None
V_manager == << "m", "@", "x" >>
V_work    == << "w", " " >>

StoreEmails == { E_a, E_spa }
StoreNames  == { << "A" >>, << "A", "\n", "B" >>, << "A", ",", "B" >>, NoneV }
StoreDates  == { D_tue, D_wed }

\* book_schedule(manager, date, time, staff_email, staff_name, work_time)
BookSchedule(date, staff_email, staff_name) ==
  /\ Len(schedCsv.rows) < MaxSched
  /\ \E r \in { book_schedule(schedCsv, schedules, V_manager, date, << "09:00" >>, staff_email, staff_name, V_work) } :
       /\ schedCsv' = r.csv
       /\ schedules' = r.schedules
       /\ resp' = [ UserResp("book_schedule", << >>, IF r.ok THEN "Written" ELSE "Booked") EXCEPT
                      !.form = << V_manager, date, << "09:00" >>, staff_email, staff_name, V_work >> ]
  /\ UNCHANGED << usersCsv, staff, session, pc, req, shopVars >>

\* load_schedules_from_csv()
LoadSchedules ==
  /\ schedules' = load_schedules_from_csv(schedCsv)
  /\ resp' = UserResp("load_schedules", << >>, "Loaded")
  /\ UNCHANGED << usersCsv, schedCsv, staff, session, pc, req, shopVars >>

NextStore ==
  \/ \E date \in StoreDates, staff_email \in StoreEmails, staff_name \in StoreNames :
       BookSchedule(date, staff_email, staff_name)
  \/ LoadSchedules

SpecStore == Init /\ [][NextStore]_vars

\* ------------------------------------- order requests running side by side
\* Flask serves requests on threads, and update_order_status closes the file
\* after reading it and opens it again to write: a completion (request r1) is
\* taken in three steps, the read, the rewrite and the reload of the orders,
\* with checkouts between any two of them.
\* POST /staff/orders/complete up to the end of the read: the rows read and the
\* file to be written are the request's own
CompleteStart(r, order_id) ==
  /\ pc[r] = "idle"
  /\ \E found \in { get_user_details(usersCsv, staff, session.user_email) } :
     \E res \in { complete_order(found, usersCsv, staff, session, ordersCsv, orders, menuCsv,
                                 cart, order_id) } :
       /\ usersCsv' = res.users
       /\ staff' = res.staff
       /\ menuCsv' = res.menuCsv
       /\ IF res.msg = "Completed"
          THEN /\ req' = [ req EXCEPT ![r] = [ order_id |-> order_id, read |-> ordersCsv.rows,
                                               written |-> res.ordersCsv ] ]
               /\ pc' = [ pc EXCEPT ![r] = "rewrite" ]
          ELSE UNCHANGED << req, pc >>
  /\ UNCHANGED << schedCsv, schedules, session, resp, ordersCsv, orders, cart >>

\* open(path, "w"): the header and the rows as they were read, one of them marked
CompleteRewrite(r) ==
  /\ pc[r] = "rewrite"
  /\ ordersCsv' = req[r].written
  /\ pc' = [ pc EXCEPT ![r] = "reload" ]
  /\ UNCHANGED << usersCsv, schedCsv, staff, schedules, session, resp, req, orders, menuCsv,
                  cart >>

\* self.load_orders_from_csv(), and the redirect
CompleteReload(r) ==
  /\ pc[r] = "reload"
  /\ orders' = load_orders_from_csv(ordersCsv)
  /\ pc' = [ pc EXCEPT ![r] = "idle" ]
  /\ req' = [ req EXCEPT ![r] = NoReq ]
  /\ UNCHANGED << usersCsv, schedCsv, staff, schedules, session, resp, ordersCsv, menuCsv,
                  cart >>

NextLost ==
  \/ Login(E_a, PW_good)
  \/ \E n \in CartItems : AddToCart(n, PostedPrice(n))
  \/ Checkout("POST", OrderForm)
  \/ CompleteStart("r1", << "1" >>)
  \/ CompleteRewrite("r1")
  \/ CompleteReload("r1")

\* start-up on the users file that holds registered staff
InitStaffed == Init /\ usersCsv = PopulatedUsers

SpecLost == InitStaffed /\ [][NextLost]_vars

\* ------------------------------------------------ the menu as staff keep it
\* delete_menu_item(item_id): the file is written again without the rows of
\* that id, and the call answers True whether or not a row went
delete_menu_item(csv, item_id) ==
  LET kept == SelectSeq(csv.rows, LAMBDA row : DictRow(csv.header, row)["Item_ID"] # item_id)
  IN [ csv |-> [ csv EXCEPT !.rows = [ i \in 1..Len(kept) |->
                                         DictToList(csv.header, DictRow(csv.header, kept[i])) ] ],
       ok  |-> TRUE ]

\* the columns save_menu_item sets, on a row that is updated or added
SavedColumns(d, name, description, price, category, vegan, image, allergens, available) ==
  [ d EXCEPT !["Name"] = name, !["Description"] = description, !["Price"] = price,
             !["Category"] = category, !["Vegan"] = IF vegan THEN T_True ELSE T_False,
             !["Image"] = image, !["Allergens"] = allergens,
             !["Available"] = IF available THEN T_True ELSE T_False ]

\* max([int(r.get("Item_ID", 0) or 0) for r in rows] + [0])
MaxItemId(dicts) ==
  LET ids == { IF dicts[i]["Item_ID"] \in { NoneV, << >> } THEN 0 ELSE int(dicts[i]["Item_ID"]) :
                 i \in 1..Len(dicts) } \cup { 0 }
  IN CHOOSE m \in ids : \A n \in ids : n <= m

\* save_menu_item(item_id, ...): every row of that id is updated; when there is
\* none, a row is added under the next id after the largest in the file
save_menu_item(csv, item_id, name, description, price, category, vegan, image, allergens, available) ==
  LET dicts   == [ i \in 1..Len(csv.rows) |-> DictRow(csv.header, csv.rows[i]) ]
      updated == \E i \in 1..Len(dicts) : dicts[i]["Item_ID"] = item_id
      changed == [ i \in 1..Len(dicts) |->
                     IF dicts[i]["Item_ID"] = item_id
                     THEN SavedColumns(dicts[i], name, description, price, category, vegan,
                                       image, allergens, available)
                     ELSE dicts[i] ]
      new_id  == IF dicts = << >> THEN << "1" >> ELSE IntToText(MaxItemId(dicts) + 1)
      added   == SavedColumns([ c \in Range(MENU_HEADER) |-> IF c = "Item_ID" THEN new_id ELSE << >> ],
                              name, description, price, category, vegan, image, allergens,
                              available)
      rows    == IF updated THEN changed ELSE Append(changed, added)
  IN [ csv |-> [ csv EXCEPT !.rows = [ i \in 1..Len(rows) |-> DictToList(csv.header, rows[i]) ] ],
       ok  |-> TRUE ]

\* the ids of the items, in list order
ItemIds(items) == [ i \in 1..Len(items) |-> items[i].item_id ]

\* the ids staff delete: the default items', the first added one's, and one no row has
DeletedIds == { << "9" >>, << "1", "0" >>, << "1", "2" >>, << "1", "3" >>, << "7" >> }

\* the ids staff save under: none (a new item) and a default item's
SavedIds == { << >>, << "9" >> }

\* delete_menu_item(item_id)
DeleteMenuItem(item_id) ==
  /\ \E r \in { delete_menu_item(menuCsv, item_id) } :
       /\ menuCsv' = r.csv
       /\ resp' = [ UserResp("delete_menu_item", << >>, IF r.ok THEN "Deleted" ELSE "Failed") EXCEPT
                      !.form = << item_id >> ]
  /\ UNCHANGED << usersCsv, schedCsv, staff, schedules, session, pc, req, ordersCsv,
                  orders, cart >>

\* save_menu_item(item_id, name, ...)
SaveMenuItem(item_id, available) ==
  /\ Len(menuCsv.rows) < MaxMenu
  /\ \E r \in { save_menu_item(menuCsv, item_id, N_CocaCola, << "d" >>, Money(500), << "c" >>,
                               TRUE, << "i" >>, << >>, available) } :
       /\ menuCsv' = r.csv
       /\ resp' = [ UserResp("save_menu_item", << >>, IF r.ok THEN "Saved" ELSE "Failed") EXCEPT
                      !.form = << item_id >> ]
  /\ UNCHANGED << usersCsv, schedCsv, staff, schedules, session, pc, req, ordersCsv,
                  orders, cart >>

\* get_menu_items(): the ids of the items it returns
GetMenuItems ==
  /\ \E r \in { get_menu_items(menuCsv) } :
       /\ menuCsv' = r.csv
       /\ resp' = [ UserResp("get_menu_items", << >>, "Returned") EXCEPT
                      !.slots = ItemIds(r.items) ]
  /\ UNCHANGED << usersCsv, schedCsv, staff, schedules, session, pc, req, ordersCsv,
                  orders, cart >>

NextMenu ==
  \/ \E item_id \in DeletedIds : DeleteMenuItem(item_id)
  \/ \E item_id \in SavedIds, available \in BOOLEAN : SaveMenuItem(item_id, available)
  \/ GetMenuItems

\* start-up on a new users file: the menu file holds the default items
InitMenu == Init /\ usersCsv = FreshUsers

SpecMenu == InitMenu /\ [][NextMenu]_vars

\* ------------------------------------- safety check and pricing of a text
\* the item summary texts and allergy declarations the two functions are put to
X_two       == << "V", "e", "g", "g", "i", "e", " ", "B", "u", "r", "g", "e", "r", " ", "x", "2", ",", " ", "C", "o", "c", "a", "-", "C", "o", "l", "a", " ", "x", "1" >>
X_lower     == << "v", "e", "g", "g", "i", "e", " ", "b", "u", "r", "g", "e", "r", " ", "x", "1" >>
X_plain     == << "V", "e", "g", "g", "i", "e", " ", "B", "u", "r", "g", "e", "r" >>
X_unknown   == << "N", "o", "p", "e", " ", "x", "3" >>
X_tea       == << "I", "c", "e", "d", " ", "T", "e", "a", " ", "x", "2" >>
X_tea_first == << "I", "c", "e", "d", " ", "T", "e", "a", ",", "V", "e", "g", "g", "i", "e", " ", "B", "u", "r", "g", "e", "r", " ", "x", "1" >>

X_negative  == << "I", "c", "e", "d", " ", "T", "e", "a", " ", "x", "-", "2" >>

Texts == { X_two, X_lower, X_plain, X_unknown, X_tea, X_tea_first, X_negative, << >> }

A_egg   == << "e", "g", "g" >>
A_blank == << " " >>

Declarations == { << >>, A_soy, A_egg, A_blank }

\* data/menu.csv as the functions may find it: the default items, no row at
\* all, a second row of the same name, and an item taken off the menu
DefaultMenu == [ header |-> MENU_HEADER, rows |-> default_items ]

EmptyMenu == [ header |-> MENU_HEADER, rows |-> << >> ]

TwiceMenu ==
  [ DefaultMenu EXCEPT !.rows =
      Append(@, MenuRow(<< "1", "6" >>, N_VeggieBurger, Money(500), T_True, << >>, T_True)) ]

OffMenu ==
  [ DefaultMenu EXCEPT !.rows[1] =
      MenuRow(<< "9" >>, N_VeggieBurger, Money(799), T_True, << "g", "l", "u", "t", "e", "n", ",", "s", "o", "y" >>, T_False) ]

Menus == { DefaultMenu, EmptyMenu, TwiceMenu, OffMenu }

InitText ==
  /\ usersCsv = FreshUsers
  /\ staff = << >>
  /\ schedCsv = [ header |-> SCHEDULES_HEADER, rows |-> << >> ]
  /\ schedules = << >>
  /\ session = NoSession
  /\ \E text \in Texts, declaration \in Declarations :
       resp = [ UserResp("text", << >>, "") EXCEPT !.form = << text, declaration >> ]
  /\ pc = [ r \in Reqs |-> "idle" ]
  /\ req = [ r \in Reqs |-> NoReq ]
  /\ menuCsv \in Menus
  /\ ordersCsv = [ header |-> ORDERS_HEADER, rows |-> << >> ]
  /\ orders = << >>
  /\ cart = << >>

\* is_order_safe_for_allergy(items_text, allergy_text)
IsOrderSafe ==
  /\ resp.op = "text"
  /\ \E r \in { is_order_safe_for_allergy(menuCsv, resp.form[1], resp.form[2]) } :
       /\ menuCsv' = r.csv
       /\ resp' = [ resp EXCEPT !.op = "is_safe", !.msg = IF r.safe THEN "YES" ELSE "NO" ]
  /\ UNCHANGED << usersCsv, schedCsv, staff, schedules, session, pc, req, ordersCsv,
                  orders, cart >>

\* calculate_order_price(items_text)
CalculateOrderPrice ==
  /\ resp.op = "text"
  /\ \E r \in { calculate_order_price(menuCsv, resp.form[1]) } :
       /\ menuCsv' = r.csv
       /\ resp' = [ resp EXCEPT !.op = "price", !.total = r.total ]
  /\ UNCHANGED << usersCsv, schedCsv, staff, schedules, session, pc, req, ordersCsv,
                  orders, cart >>

NextText ==
  \/ IsOrderSafe
  \/ CalculateOrderPrice

SpecText == InitText /\ [][NextText]_vars

\* ===================================================================
\* Properties
\* ===================================================================
\* what the files hold, read positionally
StoredTriple(row) == << row[4], row[2], row[3] >>

RowsWith(csv, triple) == { i \in 1..Len(csv.rows) : StoredTriple(csv.rows[i]) = triple }

IsBookResp(r) ==
  /\ r.op \in { "book_schedule", "book_appointment" }
  /\ r.msg \notin { "LoginRequired", "AuthRequired", "Restricted", "Status401",
                     "MissingFields" }

IsSlotsResp(r) == r.op \in { "get_available_slots", "staff_schedule" } /\ r.msg = "Slots"

\* C1: after any sequence of booking requests handled one at a time, the
\* schedule store never holds two entries with the same (staff email, date,
\* time slot) as stored.
C1_NoDuplicateTriple ==
  \A i, j \in 1..Len(schedCsv.rows) :
    StoredTriple(schedCsv.rows[i]) = StoredTriple(schedCsv.rows[j]) => i = j

\* C2: once book has succeeded for (staff, date, slot), availableSlots for that
\* staff and date excludes the slot, and the identical book repeated fails with
\* the slot-conflict error.
C2_BookedSlotStaysTaken ==
  [][ /\ (IsBookResp(resp') /\ resp'.msg = "Booked")
         => resp'.time \notin
              Range(get_available_slots(schedCsv', schedules', resp'.email,
                                        resp'.date).slots)
      /\ ( /\ IsBookResp(resp) /\ resp.msg = "Booked"
           /\ IsBookResp(resp')
           /\ << resp'.email, resp'.date, resp'.time >>
                = << resp.email, resp.date, resp.time >> )
         => resp'.msg = "SlotConflict" ]_vars

\* the triple a request's row is stored under
ReqTriple(r) == << sanitize_for_csv(req[r].email), req[r].date, sanitize_for_csv(req[r].time) >>

BookedReqs(triple) ==
  { q \in Reqs : pc[q] = "done" /\ req[q].msg = "Booked" /\ ReqTriple(q) = triple }

\* C3: nothing stands between the availability check and the append: every
\* interleaved request that passed the check commits its own row, so the
\* store holds as many rows for a triple as requests were answered "booked"
\* for it, two for the same triple included.
C3_EveryBookedRequestCommitted ==
  \A r \in Reqs :
    Cardinality(BookedReqs(ReqTriple(r))) <= Cardinality(RowsWith(schedCsv, ReqTriple(r)))

\* two requests for the same triple, written the same way, both answered
\* "booked", and two rows for it in the store
C3_DoubleBooked ==
  /\ pc["r1"] = "done" /\ pc["r2"] = "done"
  /\ req["r1"].msg = "Booked" /\ req["r2"].msg = "Booked"
  /\ req["r1"].email = E_a /\ req["r2"].email = E_a
  /\ req["r1"].date = req["r2"].date /\ req["r1"].time = req["r2"].time
  /\ Cardinality(RowsWith(schedCsv, ReqTriple("r1"))) = 2

\* C4: on a Monday availableSlots answers with the empty sequence, not an
\* error, for every staff email and whatever the schedule store holds.
C4_MondayHasNoSlots ==
  /\ \A e \in BookEmails :
       get_available_slots(schedCsv, schedules, e, D_mon).slots = << >>
  /\ (resp.op = "staff_schedule" /\ resp.date = D_mon)
       => (resp.msg = "Slots" /\ resp.slots = << >>)

C4_MondayAsked ==
  /\ resp.op = "staff_schedule" /\ resp.date = D_mon /\ resp.msg = "Slots"
  /\ \E i \in 1..Len(schedCsv.rows) : schedCsv.rows[i][4] = resp.email

\* the slots of the catalog no stored row takes for (email, date), in order
FreeInStore(csv, email, date) ==
  SelectSeq(TIME_SLOTS, LAMBDA t : RowsWith(csv, << email, date, t >>) = { })

\* C5: on a working day availableSlots(staffEmail, date) is exactly the slots
\* of the nine-slot catalog 09:00..17:00 that no schedule entry takes for
\* (staffEmail, date), in catalog order.
C5_SlotsAreTheFreeOnes ==
  /\ Len(TIME_SLOTS) = 9
  /\ TIME_SLOTS[1] = << "09:00" >> /\ TIME_SLOTS[9] = << "17:00" >>
  /\ (IsSlotsResp(resp) /\ resp.date \in { D_tue, D_wed })
       => resp.slots = FreeInStore(schedCsv, resp.email, resp.date)

C5_SomeSlotTaken ==
  /\ IsSlotsResp(resp) /\ resp.date = D_tue
  /\ Len(resp.slots) = 7
  /\ Len(schedCsv.rows) = 2

\* the checks of a booking, decided on the files as they are before it
StaffInStore(csv, email) ==
  \E i \in 1..Len(csv.rows) : Lower(Strip(csv.rows[i][1])) = Lower(Strip(email))

FirstFailure(ucsv, scsv, date, time, email) ==
  IF date \notin { D_tue, D_wed } THEN "day"
  ELSE IF \A k \in 1..Len(TIME_SLOTS) : TIME_SLOTS[k] # time THEN "slot"
  ELSE IF ~StaffInStore(ucsv, email) THEN "staff"
  ELSE IF RowsWith(scsv, << email, date, time >>) # { } THEN "conflict"
  ELSE "none"

Failure(msg) ==
  CASE msg \in { "InvalidDateFormat", "NotWorkingDay" } -> "day"
    [] msg = "InvalidSlot" -> "slot"
    [] msg = "StaffNotFound" -> "staff"
    [] msg = "SlotConflict" -> "conflict"
    [] msg = "Booked" -> "none"
    [] OTHER -> "other"

\* C6: book checks day, slot, staff existence and slot availability in this
\* order and reports the first check that fails.
C6_FirstFailureWins ==
  [][ IsBookResp(resp')
        => Failure(resp'.msg)
             = FirstFailure(usersCsv, schedCsv, resp'.date, resp'.time, resp'.email) ]_vars

\* a request that fails the slot check and the staff check
C6_TwoChecksFail ==
  /\ IsBookResp(resp) /\ resp.date = D_tue
  /\ resp.time = << "08:00" >> /\ resp.email = E_c
  /\ ~StaffInStore(usersCsv, E_c)
  /\ resp.msg = "InvalidSlot"

\* two emails equal when case is ignored
SameIgnoringCase(s, t) ==
  /\ Len(s) = Len(t)
  /\ \A i \in 1..Len(s) : LowerChar(s[i]) = LowerChar(t[i])

Registered(csv, email) ==
  \E i \in 1..Len(csv.rows) : SameIgnoringCase(csv.rows[i][1], Strip(email))

\* the other fields of a registration request pass the form's validation
WellFormed(r) ==
  /\ \E i \in 2..Len(r.email) :
       r.email[i - 1] = "@" /\ \E j \in i..Len(r.email) : r.email[j] = "."
  /\ Len(r.form[1]) >= 6
  /\ Strip(r.form[2]) # << >> /\ Strip(r.form[3]) # << >>

\* C7: a registration (with an otherwise valid form) for an email that is
\* already registered, compared case-insensitively, fails with the
\* duplicate-identity error, and the user store is left exactly as it was.
C7_DuplicateSignupRefused ==
  [][ (resp'.op = "signup" /\ Registered(usersCsv, resp'.email))
        => /\ usersCsv' = usersCsv
           /\ WellFormed(resp') => resp'.msg = "AlreadyRegistered" ]_vars

\* the registered a@x.c asked for again in another case, and refused
C7_SecondSignupInOtherCase ==
  /\ resp.op = "signup" /\ resp.email = E_A /\ resp.msg = "AlreadyRegistered"
  /\ \E i \in 1..Len(usersCsv.rows) : usersCsv.rows[i][1] = E_a

\* C8: after any sequence of signup and add_staff_submit, no two records of
\* the user store have emails that are equal ignoring case.
C8_UniqueEmails ==
  \A i, j \in 1..Len(usersCsv.rows) :
    SameIgnoringCase(usersCsv.rows[i][1], usersCsv.rows[j][1]) => i = j

\* C9: a user record is never removed, and a profile update of one user
\* leaves every other user's record unchanged.
C9_UsersNeverRemoved ==
  [][ /\ \A i \in 1..Len(usersCsv.rows) : Registered(usersCsv', usersCsv.rows[i][1])
      /\ resp'.op = "update_profile"
           => \A i \in 1..Len(usersCsv.rows) :
                usersCsv.rows[i][1] # resp'.email
                  => \E j \in 1..Len(usersCsv'.rows) : usersCsv'.rows[j] = usersCsv.rows[i]
    ]_vars

\* C10: a rewrite of the whole user store (profile update, password-hash
\* upgrade at login) leaves either the old contents or a complete new set of
\* records, one per record of the old store, never a truncated one.
C10_RewriteAtomic ==
  [][ resp'.op \in { "update_profile", "login" }
        => \/ usersCsv' = usersCsv
           \/ /\ Len(usersCsv'.rows) = Len(usersCsv.rows)
              /\ \A i \in 1..Len(usersCsv.rows) :
                   usersCsv'.rows[i][1] = usersCsv.rows[i][1] ]_vars


\* the stored password of the user registered under email, as the file has it
StoredPasswords(csv, email) ==
  { Strip(csv.rows[i][2]) : i \in { j \in 1..Len(csv.rows) : csv.rows[j][1] = email } }

\* C11: when a user whose stored password is legacy plaintext logs in with
\* that password, the stored password is afterwards a hashed digest of it, so
\* that the same password logs the user in on the next attempt.
C11_LegacyPasswordUpgraded ==
  [][ ( /\ resp'.op = "login" /\ resp'.msg = "LoggedIn"
        /\ \E pw \in StoredPasswords(usersCsv, resp'.email) : ~IsHashed(pw) )
        => /\ StoredPasswords(usersCsv', resp'.email) # { }
           /\ \A pw \in StoredPasswords(usersCsv', resp'.email) :
                IsHashed(pw) /\ \E p \in Passwords : check_password_hash(pw, p) ]_vars


\* the default _ensure_user_columns gives a column it adds
ColumnDefault(c) == IF c = "Role" THEN T_customer ELSE T_NO

\* new is old widened: the old columns first, the missing ones after them;
\* row by row the values of the old columns as they were (blank where the
\* old row was cut short) and the default in each added column
WidenedFrom(old, new) ==
  /\ SubSeq(new.header, 1, Len(old.header)) = old.header
  /\ { new.header[k] : k \in (Len(old.header) + 1)..Len(new.header) }
       = { "Role", "Verified" } \ { old.header[k] : k \in 1..Len(old.header) }
  /\ { "Role", "Verified" } \subseteq { new.header[k] : k \in 1..Len(new.header) }
  /\ Len(new.rows) = Len(old.rows)
  /\ \A i \in 1..Len(old.rows) :
       /\ Len(new.rows[i]) = Len(new.header)
       /\ \A k \in 1..Len(old.header) :
            new.rows[i][k] = IF k <= Len(old.rows[i]) THEN old.rows[i][k] ELSE << >>
       /\ \A k \in (Len(old.header) + 1)..Len(new.header) :
            new.rows[i][k] = ColumnDefault(new.header[k])

\* C12: when the user store lacks Role or Verified, widening it keeps every
\* row, in order, with its field values unchanged, and sets only the missing
\* fields, to Role=customer and Verified=NO; a store that lacks neither is
\* left as it is.
C12_WideningKeepsRows ==
  [][ resp'.op = "startup"
        => /\ IF Len(usersCsv.header) = Len(USERS_HEADER)
              THEN usersCsv' = usersCsv
              ELSE WidenedFrom(usersCsv, usersCsv')
           /\ Len(staff') = Len(usersCsv.rows) ]_vars

\* a store of two users without Role and Verified was widened at start-up
C12_TwoRowsWidened ==
  /\ resp.op = "startup"
  /\ Len(usersCsv.rows) = 2
  /\ usersCsv.rows[1][1] = E_a /\ usersCsv.rows[1][2] = PW_good
  /\ usersCsv.rows[1][9] = T_customer /\ usersCsv.rows[1][10] = T_NO
  /\ usersCsv.rows[2][1] = E_b /\ usersCsv.rows[2][8] = << >>


\* first and last name of the first user record whose email is the given one
\* ignoring case and surrounding blanks, as the file has them
NamesOf(csv, email) ==
  { csv.rows[i][3] \o << " " >> \o csv.rows[i][4] :
      i \in { j \in 1..Len(csv.rows) :
                /\ SameIgnoringCase(Strip(csv.rows[j][1]), Strip(email))
                /\ \A k \in 1..(j - 1) :
                     ~SameIgnoringCase(Strip(csv.rows[k][1]), Strip(email)) } }

C14_ScheduleAppendOnly ==
  [][ /\ Len(schedCsv'.rows) >= Len(schedCsv.rows)
      /\ \A i \in 1..Len(schedCsv.rows) :
           /\ Len(schedCsv'.rows[i]) = 6
           /\ schedCsv'.rows[i] = schedCsv.rows[i]
      /\ schedCsv'.header = schedCsv.header ]_vars

\* a second entry was appended behind the first, for another slot
C14_SecondEntryAppended ==
  /\ IsBookResp(resp) /\ resp.msg = "Booked"
  /\ Len(schedCsv.rows) = 2
  /\ schedCsv.rows[1][3] # schedCsv.rows[2][3]
  /\ schedCsv.rows[2][3] = resp.time


\* the orders as a load of the store shows them
StoredOrders(csv) == load_orders_from_csv(csv)

\* the fields of an order that completing it may change
StatusFields == { "status", "completed_by" }

SameBut(o1, o2, fields) == \A k \in (DOMAIN o1) \ fields : o2[k] = o1[k]

\* C15: a checkout adds one order, with status Pending, behind the orders that
\* are there; completing an order keeps the number and order of the records,
\* leaves every order with another id as it is, and changes at most the status
\* and completed-by of the order with the given id.  (orders is what a load of
\* the store gives, before and after each of these requests.)
C15_CompleteChangesOnlyStatus ==
  [][ /\ (resp'.op = "checkout" /\ resp'.msg = "Confirmed") =>
           /\ orders' = StoredOrders(ordersCsv')
           /\ Len(ordersCsv'.rows) = Len(ordersCsv.rows) + 1
           /\ SubSeq(orders', 1, Len(orders)) = orders
           /\ orders'[Len(orders')].status = T_Pending
           /\ orders'[Len(orders')].completed_by = << >>
      /\ resp'.op = "complete_order" =>
           /\ orders' = StoredOrders(ordersCsv')
           /\ Len(ordersCsv'.rows) = Len(ordersCsv.rows)
           /\ \A i \in 1..Len(orders) :
                /\ SameBut(orders[i], orders'[i], StatusFields)
                /\ orders[i].order_id # resp'.form[1] => orders'[i] = orders[i]
                /\ (orders[i].order_id = resp'.form[1] /\ resp'.msg = "Completed") =>
                     orders'[i].status = T_Completed ]_vars

\* the second of two orders was completed and the first is still pending
C15_OneOfTwoCompleted ==
  /\ resp.op = "complete_order" /\ resp.msg = "Completed"
  /\ Len(ordersCsv.rows) = 2
  /\ resp.form = << orders[2].order_id >>
  /\ orders[1].status = T_Pending
  /\ orders[2].status = T_Completed


\* the menu a call reads: the available items of the file
MenuRead(csv) == get_menu_items(csv).items

\* C16: with an empty allergy declaration the order is safe, whatever the item
\* summary text and whatever the menu holds.
C16_EmptyDeclarationIsSafe ==
  (resp.op = "is_safe" /\ resp.form[2] = << >>) => resp.msg = "YES"

\* an order of an item with allergens, checked with nothing declared
C16_AllergenItemNothingDeclared ==
  /\ resp.op = "is_safe" /\ resp.msg = "YES"
  /\ resp.form = << X_two, << >> >>
  /\ \E i \in 1..Len(MenuRead(menuCsv)) :
       /\ MenuRead(menuCsv)[i].name = N_VeggieBurger
       /\ MenuRead(menuCsv)[i].allergens # << >>

\* C17 as stated: with a non-empty declaration the order is unsafe exactly when
\* a tag of some menu item whose name, as written, is a substring of the item
\* summary text is a substring of the lowercased declaration.
C17_NamesMatchedAsWritten ==
  (resp.op = "is_safe" /\ resp.form[2] # << >>) =>
     (resp.msg = "NO" <=>
        \E i \in 1..Len(MenuRead(menuCsv)) :
          /\ IsSubstring(MenuRead(menuCsv)[i].name, resp.form[1])
          /\ \E k \in 1..Len(MenuRead(menuCsv)[i].allergens) :
               IsSubstring(MenuRead(menuCsv)[i].allergens[k], Lower(resp.form[2])))

\* C17 (amended): with a non-empty declaration the order is unsafe exactly when
\* a tag of some available menu item (the last one of its name) whose lowercased
\* name is a substring of the lowercased item summary text is a substring of
\* the lowercased declaration.
C17_NamesMatchedIgnoringCase ==
  (resp.op = "is_safe" /\ resp.form[2] # << >>) =>
     (resp.msg = "NO" <=>
        \E n \in MenuNames(MenuRead(menuCsv)) :
          /\ IsSubstring(Lower(n), Lower(resp.form[1]))
          /\ \E tag \in Range(LastNamed(MenuRead(menuCsv), n).allergens) :
               IsSubstring(tag, Lower(resp.form[2])))

\* an item named in lower case only, found unsafe for a declared allergen
C17_LowerCaseNameUnsafe ==
  /\ resp.op = "is_safe" /\ resp.msg = "NO"
  /\ resp.form = << X_lower, A_soy >>
  /\ ~ \E i \in 1..Len(MenuRead(menuCsv)) : IsSubstring(MenuRead(menuCsv)[i].name, X_lower)

\* a quantity as it is written, with its sign when it is below zero
QuantityText(q) == IF q < 0 THEN << "-" >> \o IntToText(0 - q) ELSE IntToText(q)

\* what the claim gives one entry: "<name> x<quantity>" of a menu name costs
\* price times quantity, a bare menu name costs its price, anything else nothing
ClaimedEntry(prices, entry) ==
  IF \E n \in DOMAIN prices, q \in -9..9 : entry = n \o << " ", "x" >> \o QuantityText(q)
  THEN LET nq == CHOOSE nq \in (DOMAIN prices) \X (-9..9) :
                   entry = nq[1] \o << " ", "x" >> \o QuantityText(nq[2])
       IN prices[nq[1]] * nq[2]
  ELSE IF entry \in DOMAIN prices THEN prices[entry] ELSE 0

RECURSIVE ClaimedSum(_, _)
ClaimedSum(prices, entries) ==
  IF entries = << >> THEN 0
  ELSE ClaimedEntry(prices, Strip(Head(entries))) + ClaimedSum(prices, Tail(entries))

\* C18: the price of an item summary text is the sum, over its comma-separated
\* entries, of menu price times quantity for the entries naming a menu item
\* (quantity 1 when none is written) and nothing for the others.
C18_PriceIsSumOfEntries ==
  resp.op = "price" =>
    resp.total = ClaimedSum(menu_prices(MenuRead(menuCsv)), Split(resp.form[1], ","))

\* Veggie Burger x2 at 7.99 plus Coca-Cola x1 at 2.49 gives 18.47
C18_TwoBurgersOneCola ==
  /\ resp.op = "price"
  /\ resp.form[1] = X_two
  /\ menu_prices(MenuRead(menuCsv))[N_VeggieBurger] = 799
  /\ menu_prices(MenuRead(menuCsv))[N_CocaCola] = 249
  /\ resp.total = 1847


\* the Order_ID column of the store, in file order
StoredIds(csv) == [ i \in 1..Len(csv.rows) |-> DictRow(csv.header, csv.rows[i])["Order_ID"] ]

\* C19: the ids of the stored orders are unique, and every order got the number
\* of orders stored before it plus one: the i-th order of the store has id i.
C19_OrderIdsCountUp ==
  /\ \A i, j \in 1..Len(ordersCsv.rows) :
       StoredIds(ordersCsv)[i] = StoredIds(ordersCsv)[j] => i = j
  /\ \A i \in 1..Len(ordersCsv.rows) : StoredIds(ordersCsv)[i] = IntToText(i)

\* a second order was placed after the first one had been completed
C19_OrderAfterCompletion ==
  /\ resp.op = "checkout" /\ resp.msg = "Confirmed"
  /\ StoredIds(ordersCsv) = << << "1" >>, << "2" >> >>
  /\ orders[1].status = T_Completed
  /\ orders[2].status = T_Pending


\* C20: when a checkout has been completed the cart of the session is empty,
\* and a checkout request that finds the cart empty leaves the order store and
\* the loaded orders as they are.
C20_CheckoutEmptiesCart ==
  [][ resp'.op = "checkout" =>
        /\ resp'.msg = "Confirmed" => (cart # << >> /\ cart' = << >>)
        /\ cart = << >> =>
             (resp'.msg = "ToMenu" /\ ordersCsv' = ordersCsv /\ orders' = orders
              /\ cart' = << >>) ]_vars

\* a checkout was completed for a cart of two and the order is in the store
C20_CartOfTwoCheckedOut ==
  /\ resp.op = "checkout" /\ resp.msg = "Confirmed"
  /\ cart = << >>
  /\ Len(ordersCsv.rows) >= 1
  /\ orders[Len(orders)].item = N_VeggieBurger \o << " ", "x", "2" >>


\* the columns of the order store that hold text (the four amounts are numbers
\* computed from prices, fee and tip)
TextColumns ==
  Range(ORDERS_HEADER) \ { "Subtotal", "Delivery_Fee", "Tip_Amount", "Total_Price" }

\* the text fields of the i-th stored order
StoredTexts(csv, i) == { DictRow(csv.header, csv.rows[i])[c] : c \in TextColumns }

\* some n characters in a row of the number stand in the field
HoldsRun(field, number, n) ==
  \E i \in 1..(Len(number) - n + 1) : IsSubstring(SubSeq(number, i, i + n - 1), field)

DigitsIn(text) == SelectSeq(text, LAMBDA ch : ch \in Range(DIGITS))

LastFour(digits) == SubSeq(digits, Len(digits) - 3, Len(digits))

CARD_MASK == << "*", "*", "*", "*", " ", "*", "*", "*", "*", " ", "*", "*", "*", "*", " " >>

\* C21: the order a completed checkout stores has a card field that is empty or
\* the fixed mask followed by exactly the last four digits of the submitted card
\* number; no text field of it holds five digits in a row of that number, and
\* none holds the submitted CVV; the orders stored before stay as they are.
C21_OnlyLastFourDigitsStored ==
  [][ (resp'.op = "checkout" /\ resp'.msg = "Confirmed") =>
        /\ SubSeq(ordersCsv'.rows, 1, Len(ordersCsv.rows)) = ordersCsv.rows
        /\ Len(ordersCsv'.rows) = Len(ordersCsv.rows) + 1
        /\ \/ DictRow(ordersCsv'.header, ordersCsv'.rows[Len(ordersCsv'.rows)])["Masked_Card"] = << >>
           \/ /\ Len(DigitsIn(resp'.form[2].card_number)) >= 4
              /\ DictRow(ordersCsv'.header, ordersCsv'.rows[Len(ordersCsv'.rows)])["Masked_Card"]
                   = CARD_MASK \o LastFour(DigitsIn(resp'.form[2].card_number))
        /\ \A t \in StoredTexts(ordersCsv', Len(ordersCsv'.rows)) :
             /\ ~HoldsRun(t, DigitsIn(resp'.form[2].card_number), 5)
             /\ ~IsSubstring(resp'.form[2].card_cvv, t) ]_vars

\* a card payment with a number of six digits was checked out and its last four
\* digits are in the store behind the mask
C21_CardOrderStored ==
  /\ resp.op = "checkout" /\ resp.msg = "Confirmed"
  /\ resp.form[2] = CardForm
  /\ Len(DigitsIn(resp.form[2].card_number)) = 6
  /\ orders[Len(orders)].payment_method = T_card
  /\ orders[Len(orders)].masked_card = CARD_MASK \o << "3", "4", "5", "6" >>
  /\ orders[Len(orders)].card_expiry = C_expiry


\* a schedule entry with the six values of a write, in the order of its arguments
EntryOf(values) ==
  [ manager |-> values[1], date |-> values[2], time |-> values[3],
    staff_email |-> values[4], staff_name |-> values[5], work_time |-> values[6] ]

\* a text as the store keeps it: nothing for None, no blanks or line breaks
\* around it, a blank for every line break inside it
AsStored(v) ==
  IF v = NoneV \/ \A i \in 1..Len(v) : IsSpace(v[i]) THEN << >>
  ELSE LET first == CHOOSE i \in 1..Len(v) : ~IsSpace(v[i]) /\ \A j \in 1..(i - 1) : IsSpace(v[j])
           last  == CHOOSE i \in 1..Len(v) : ~IsSpace(v[i]) /\ \A j \in (i + 1)..Len(v) : IsSpace(v[j])
       IN [ i \in 1..(last - first + 1) |->
              IF v[first + i - 1] \in { "\n", "\r" } THEN " " ELSE v[first + i - 1] ]

EntryAsStored(values) ==
  [ EntryOf(values) EXCEPT !.manager = AsStored(@), !.time = AsStored(@),
                           !.staff_email = AsStored(@), !.staff_name = AsStored(@),
                           !.work_time = AsStored(@) ]

IdsOf(rows) == [ i \in 1..Len(rows) |-> rows[i][IndexOf(ORDERS_HEADER, "Order_ID")] ]

\* the requests whose rewrite is this step
Rewriting(r) == pc[r] = "rewrite" /\ pc'[r] = "reload"

\* C23: nothing stands between the read and the rewrite of an order-status
\* update: the rewrite leaves in the store exactly the orders the request had
\* read, in their order, so an order a checkout appended in between is no longer
\* there; every other step keeps the orders of the store and adds at most one.
C23_RewriteKeepsWhatWasRead ==
  [][ /\ \A r \in Reqs : Rewriting(r) =>
           /\ StoredIds(ordersCsv') = IdsOf(req[r].read)
           /\ Len(ordersCsv'.rows) = Len(req[r].read)
      /\ (~ \E r \in Reqs : Rewriting(r)) =>
           /\ Len(ordersCsv'.rows) \in { Len(ordersCsv.rows), Len(ordersCsv.rows) + 1 }
           /\ SubSeq(StoredIds(ordersCsv'), 1, Len(ordersCsv.rows)) = StoredIds(ordersCsv) ]_vars

\* a completion read one order, a checkout was confirmed and its order loaded,
\* and after the rewrite the store holds the first order only
C23_AppendedOrderLost ==
  /\ \E r \in Reqs : pc[r] = "reload" /\ Len(req[r].read) = 1
  /\ resp.op = "checkout" /\ resp.msg = "Confirmed"
  /\ Len(orders) = 2
  /\ orders[2].status = T_Pending
  /\ Len(ordersCsv.rows) = 1
  /\ orders[2].order_id \notin Range(StoredIds(ordersCsv))


\* C24: a booking request whose staff e-mail is, letter case and surrounding
\* blanks aside, the e-mail of an entry stored for the same date and slot is
\* answered with the slot conflict.
C24_SameStaffOtherSpellingRefused ==
  [][ (/\ IsBookResp(resp')
       /\ \E i \in 1..Len(schedCsv.rows) :
            /\ schedCsv.rows[i][2] = resp'.date
            /\ schedCsv.rows[i][3] = resp'.time
            /\ Lower(Strip(schedCsv.rows[i][4])) = Lower(Strip(resp'.email)))
        => resp'.msg = "SlotConflict" ]_vars


\* the answers of a booking request that was rejected
Rejections ==
  { "InvalidDateFormat", "NotWorkingDay", "InvalidSlot", "StaffNotFound", "SlotConflict",
    "FailedToBook" }

\* C25: a booking request that is rejected (the date is no date or no working
\* day, the slot is not in the catalog, the staff member is not found, the slot
\* is taken) leaves the schedule store with exactly the entries it had.
C25_RejectedBookingWritesNothing ==
  [][ (IsBookResp(resp') /\ resp'.msg \in Rejections) => schedCsv' = schedCsv ]_vars

\* a booking was refused as a conflict with the entry the store holds
C25_ConflictRefused ==
  /\ IsBookResp(resp) /\ resp.msg = "SlotConflict"
  /\ \E i \in 1..Len(schedCsv.rows) :
       StoredTriple(schedCsv.rows[i]) = << resp.email, resp.date, resp.time >>


\* what the session of a request is allowed: require_staff_access, require_admin
MayBookAppointment(sess) ==
  sess.user_email # NoneV /\ (sess.is_staff \/ sess.admin # NoneV)

MayBookSchedule(sess) == sess.admin # NoneV

\* C26: the schedule store changes only by a /book_appointment request of a
\* logged-in session with the staff or the admin capability or by a
\* /book_schedule request of an admin session, and then by one entry at its
\* end; a /book_appointment request of any other session is answered 401 when
\* it is JSON and redirected otherwise, a /book_schedule request of a session
\* without admin is sent to the login, and neither writes.
C26_OnlyStaffOrAdminCommits ==
  [][ /\ schedCsv' # schedCsv =>
           /\ \/ resp'.op = "book_appointment" /\ MayBookAppointment(session)
              \/ resp'.op = "book_schedule" /\ MayBookSchedule(session)
           /\ resp'.msg = "Booked"
           /\ Len(schedCsv'.rows) = Len(schedCsv.rows) + 1
           /\ SubSeq(schedCsv'.rows, 1, Len(schedCsv.rows)) = schedCsv.rows
      /\ (resp'.op = "book_appointment" /\ ~MayBookAppointment(session)) =>
           /\ resp'.msg \in { "Status401", "AuthRequired", "Restricted" }
           /\ schedCsv' = schedCsv
      /\ (resp'.op = "book_schedule" /\ ~MayBookSchedule(session)) =>
           /\ resp'.msg = "LoginRequired"
           /\ schedCsv' = schedCsv ]_vars

\* a JSON request to /book_appointment from a session that is not logged in
\* got 401 while the store holds an entry booked earlier
C26_JsonRefusedAfterBooking ==
  /\ resp.op = "book_appointment" /\ resp.msg = "Status401"
  /\ ~MayBookAppointment(session)
  /\ Len(schedCsv.rows) >= 1


\* first and last name of the user the session is logged in as
SessionStaffName ==
  Strip(get_user_details(usersCsv, staff, session.user_email).user.first \o << " " >>
        \o get_user_details(usersCsv, staff, session.user_email).user.last)

\* C27: after a logged-in staff user has completed an order through
\* complete_order, the stored order has status Completed and its completed-by
\* field holds the first and last name of that user.
C27_CompletedByNamesStaff ==
  (resp.op = "complete_order" /\ resp.msg = "Completed") =>
     \A i \in 1..Len(ordersCsv.rows) :
       StoredOrders(ordersCsv)[i].order_id = resp.form[1] =>
         /\ StoredOrders(ordersCsv)[i].status = T_Completed
         /\ StoredOrders(ordersCsv)[i].completed_by = SessionStaffName


\* C28: for every completed checkout the total shown on the confirmation
\* equals the total of the stored order, and the stored delivery fee is 2.99
\* for a delivery and nothing for a pickup.
C28_ShownTotalIsStoredTotal ==
  (resp.op = "checkout" /\ resp.msg = "Confirmed") =>
     /\ Money(resp.total) = StoredOrders(ordersCsv)[Len(ordersCsv.rows)].price
     /\ StoredOrders(ordersCsv)[Len(ordersCsv.rows)].delivery_fee
          = Money(IF resp.form[2].order_type = T_delivery THEN DELIVERY_FEE ELSE 0)


\* C29: on a menu whose prices are all zero or more, the price of an item
\* summary text is zero or more, whatever quantities the text states.
C29_PriceNeverNegative ==
  (resp.op = "price" /\ \A i \in 1..Len(MenuRead(menuCsv)) : MenuRead(menuCsv)[i].price >= 0)
    => resp.total >= 0

\* C30: a get_menu_items call that follows a successful delete_menu_item(id)
\* returns no item of that id, also when the deleted row was the last of the file
C30_DeletedItemNotReturned ==
  [][ (resp.op = "delete_menu_item" /\ resp.msg = "Deleted" /\ resp'.op = "get_menu_items")
        => resp.form[1] \notin Range(resp'.slots) ]_vars

====
